---- MODULE Spec2Model ----
(***************************************************************************)
(* Model of the cat-home scraper package: the per-source extractors        *)
(* (SuumoScraper, DoorScraper, HomesScraper, NiftyScraper, ChintaiScraper  *)
(* and the superseded revisions kept in the same source files), their      *)
(* text normalizers and the scrapeList / scrapeDetail call protocol, the   *)
(* pet-condition parser and the DatabaseService over the properties table. *)
(*                                                                         *)
(* Texts are TLA+ strings.  The module is ASCII only, so every Japanese    *)
(* character the code tests for is written as one ASCII character:         *)
(*     M = U+4E07 (man, 10000)      Y = U+5186 (yen)                       *)
(*     k = U+30F6 (small ke)        K = U+304B (ka)      G = U+6708 (month)*)
(*     N = U+306A (na)              S = U+3057 (shi)     NS = "nashi"      *)
(*     ~ = U+7D04 (yaku, "about")                                          *)
(* All other characters (digits, '.', ',', '-', '/', ':', '?', '_',        *)
(* latin letters) stand for themselves.                                    *)
(***************************************************************************)
EXTENDS Integers, Sequences, FiniteSets, TLC

VARIABLES
    scraper,    \* the scraper class (and revision) the instance belongs to
    op,         \* the method in progress or last completed
    url,        \* the url argument of scrapeList / scrapeDetail
    pc,         \* position inside the method body
    html,       \* the document returned by fetchWithRetry / given to the parser
    thrown,     \* the exception in flight, NoError if none
    result,     \* the value the method returned, NoResult if none
    outcome,    \* how the call ended: "none", "returned", "raised"
    listed,     \* caller side: the records of the last list extraction
    mFn,        \* normalizer spec: the normalizer applied, "none" before
    mText,      \* normalizer spec: its text argument
    mRent,      \* normalizer spec: its rent argument (parseDepositWithRent)
    mOut,       \* normalizer spec: the value it returned
    calls,      \* repeat spec: the first and the latest parseListHtml call
    dbRows,     \* database spec: the rows of the properties table
    dbCall,     \* database spec: the last DatabaseService call and its return
    store,      \* store spec: the usePropertyStore state and its pending calls
    run         \* run spec: the position and the locals of a run script's main

scrapeVars == <<scraper, op, url, pc, html, thrown, result, outcome, listed>>
moneyVars == <<mFn, mText, mRent, mOut>>
appVars == <<store, run>>
storeVars == <<calls, dbRows, dbCall, appVars>>
vars == <<scrapeVars, moneyVars, storeVars>>

\* No DatabaseService call made yet.
NoDbCall == [op |-> "none"]

\* Outside the specifications that use them: no parseListHtml call
\* remembered, an empty properties table, no DatabaseService call.
\* Outside the specifications that use them: no store created, no run
\* script started.
NoStore == [created |-> FALSE]
NoRun == [pc |-> "none"]
AppIdle == store = NoStore /\ run = NoRun

StoreIdle == calls = <<>> /\ dbRows = {} /\ dbCall = NoDbCall /\ AppIdle

(***************************************************************************)
(* Bounds of the model.                                                    *)
(***************************************************************************)
MaxCore == 3        \* pieces in the numeric core of a generated money text
MaxRooms == 2       \* room rows of a generated list page, all buildings together

(***************************************************************************)
(* JavaScript string and number primitives used by the normalizers.        *)
(***************************************************************************)
CharAt(s, i) == IF i \in 1..Len(s) THEN SubSeq(s, i, i) ELSE ""

IsDigit(c) == c \in {"0", "1", "2", "3", "4", "5", "6", "7", "8", "9"}

DigitValue(c) ==
    CASE c = "0" -> 0 [] c = "1" -> 1 [] c = "2" -> 2 [] c = "3" -> 3
      [] c = "4" -> 4 [] c = "5" -> 5 [] c = "6" -> 6 [] c = "7" -> 7
      [] c = "8" -> 8 [] c = "9" -> 9

SetMin(S) == CHOOSE x \in S : \A y \in S : x <= y

RECURSIVE Pow10(_)
Pow10(n) == IF n = 0 THEN 1 ELSE 10 * Pow10(n - 1)

\* The value of a string of decimal digits ("" reads as 0).
RECURSIVE DecimalValue(_)
DecimalValue(d) ==
    IF d = "" THEN 0
    ELSE 10 * DecimalValue(SubSeq(d, 1, Len(d) - 1)) + DigitValue(CharAt(d, Len(d)))

\* String.prototype.includes for a one-character needle.
Includes(s, c) == \E i \in 1..Len(s) : CharAt(s, i) = c

\* The end of the maximal run of digits that starts at i (i - 1 if none).
DigitRunEnd(s, i) ==
    IF ~IsDigit(CharAt(s, i)) THEN i - 1
    ELSE CHOOSE j \in i..Len(s) :
            /\ \A k \in i..j : IsDigit(CharAt(s, k))
            /\ ~IsDigit(CharAt(s, j + 1))

\* text.replace(/[^0-9]/g, '')
RECURSIVE StripNonDigits(_)
StripNonDigits(s) ==
    IF s = "" THEN ""
    ELSE (IF IsDigit(CharAt(s, 1)) THEN CharAt(s, 1) ELSE "")
            \o StripNonDigits(SubSeq(s, 2, Len(s)))

\* What a normalizer returns when its JavaScript result is NaN (an integer no
\* computation of the model produces otherwise).
NaNYen == 0 - 2147483647

\* A JavaScript number: NaN, or (neg ? -1 : 1) * num / 10^scale.
NaN == [nan |-> TRUE, neg |-> FALSE, num |-> 0, scale |-> 0]
Num(neg, num, scale) == [nan |-> FALSE, neg |-> neg, num |-> num, scale |-> scale]

\* parseFloat: an optional sign, then the longest prefix of the form
\* digits [. digits] or . digits; NaN if there is none.  (Leading white
\* space, exponents and "Infinity" do not occur in the texts generated here.)
ParseFloat(s) ==
    LET signed == CharAt(s, 1) \in {"-", "+"}
        b == IF signed THEN 2 ELSE 1
        ie == DigitRunEnd(s, b)
        intPart == SubSeq(s, b, ie)
        hasDot == CharAt(s, ie + 1) = "."
        fe == IF hasDot THEN DigitRunEnd(s, ie + 2) ELSE ie
        fracPart == IF hasDot THEN SubSeq(s, ie + 2, fe) ELSE ""
    IN  IF intPart = "" /\ fracPart = "" THEN NaN
        ELSE Num(CharAt(s, 1) = "-",
                 DecimalValue(intPart \o fracPart), Len(fracPart))

\* parseInt(digits, 10) of a string that holds digits only: NaN when empty.
ParseIntDigits(d) == IF d = "" THEN NaN ELSE Num(FALSE, DecimalValue(d), 0)

\* Math.round(value * 10000): floor(x + 1/2); exact for scale <= 4.
RoundTimes10000(v) ==
    LET n == (IF v.neg THEN -1 ELSE 1) * v.num * 10000
        d == Pow10(v.scale)
    IN  (2 * n + d) \div (2 * d)

\* text.match(/([0-9.]+)/): the first maximal run of digits and points,
\* "" for null (the pattern never matches the empty string).
MatchNumericRun(s) ==
    LET isNum(i) == IsDigit(CharAt(s, i)) \/ CharAt(s, i) = "."
        starts == {i \in 1..Len(s) : isNum(i)}
    IN  IF starts = {} THEN ""
        ELSE LET b == SetMin(starts)
                 e == CHOOSE j \in b..Len(s) :
                        (\A k \in b..j : isNum(k)) /\ ~isNum(j + 1)
             IN  SubSeq(s, b, e)

\* text.match(/(\d+)[ke|ka]month/): group 1 of the leftmost match, "" for null.
MatchMonths(s) ==
    LET ok(i) == /\ IsDigit(CharAt(s, i))
                 /\ CharAt(s, DigitRunEnd(s, i) + 1) \in {"k", "K"}
                 /\ CharAt(s, DigitRunEnd(s, i) + 2) = "G"
        starts == {i \in 1..Len(s) : ok(i)}
    IN  IF starts = {} THEN ""
        ELSE SubSeq(s, SetMin(starts), DigitRunEnd(s, SetMin(starts)))

(***************************************************************************)
(* Currency normalizers, one definition per copy in the source.            *)
(***************************************************************************)
\* SuumoScraper.parseRent, current revision.
SuumoParseRent(text) ==
    IF text = "-" \/ text = "" THEN 0
    ELSE LET match == MatchNumericRun(text)
         IN  IF match = "" THEN 0
             ELSE LET value == ParseFloat(match)
                  IN  IF value.nan THEN 0 ELSE RoundTimes10000(value)

\* SuumoScraper.parseManagementFee, current revision.
SuumoParseManagementFee(text) ==
    IF text = "-" \/ text = "" THEN 0
    ELSE LET value == ParseIntDigits(StripNonDigits(text))
         IN  IF value.nan THEN 0 ELSE value.num

\* SuumoScraper.parseRent, earlier revisions: parseFloat of the whole text.
SuumoEarlyParseRent(text) ==
    IF text = "-" \/ text = "" THEN 0
    ELSE LET value == ParseFloat(text)
         IN  IF value.nan THEN 0 ELSE RoundTimes10000(value)

\* SuumoScraper.parseManagementFee, earlier revisions.
SuumoEarlyParseManagementFee(text) ==
    IF text = "-" \/ text = "" THEN 0
    ELSE LET value == ParseIntDigits(StripNonDigits(text))
         IN  IF value.nan THEN 0 ELSE value.num

\* A parseRent that hands the whole text to parseFloat, without looking for
\* the numeric run first.
ParseRentOfWholeText(text) ==
    IF text = "-" \/ text = "" THEN 0
    ELSE LET value == ParseFloat(text)
         IN  IF value.nan THEN 0 ELSE RoundTimes10000(value)

\* DoorScraper.parseRent.
DoorParseRent(text) ==
    IF text = "" \/ text = "-" \/ text = "NS" THEN 0
    ELSE LET match == MatchNumericRun(text)
         IN  IF match = "" THEN 0
             ELSE LET value == ParseFloat(match)
                  IN  IF value.nan THEN 0 ELSE RoundTimes10000(value)

\* DoorScraper.parseManagementFee: the only copy with a man-yen branch.
\* Math.round(parseFloat(run) * 10000) is returned unguarded: NaN when the
\* run has no number in it, which the model writes as NaNYen.
DoorParseManagementFee(text) ==
    IF text = "" \/ text = "-" \/ text = "NS" THEN 0
    ELSE IF Includes(text, "M") /\ MatchNumericRun(text) # ""
         THEN LET value == ParseFloat(MatchNumericRun(text))
              IN  IF value.nan THEN NaNYen ELSE RoundTimes10000(value)
         ELSE LET value == ParseIntDigits(StripNonDigits(text))
              IN  IF value.nan THEN 0 ELSE value.num

\* DoorScraper.parseDepositWithRent.
DoorParseDepositWithRent(text, rent) ==
    IF text = "" \/ text = "-" \/ text = "NS" THEN 0
    ELSE IF MatchMonths(text) # ""
         THEN rent * DecimalValue(MatchMonths(text))
         ELSE LET rentValue == DoorParseRent(text)
              IN  IF rentValue > 0 THEN rentValue ELSE 0

\* HomesScraper.parseRent.
HomesParseRent(text) ==
    IF text = "-" \/ text = "" THEN 0
    ELSE LET match == MatchNumericRun(text)
         IN  IF match = "" THEN 0
             ELSE LET value == ParseFloat(match)
                  IN  IF value.nan THEN 0 ELSE RoundTimes10000(value)

\* HomesScraper.parseManagementFee.
HomesParseManagementFee(text) ==
    IF text = "-" \/ text = "" THEN 0
    ELSE LET value == ParseIntDigits(StripNonDigits(text))
         IN  IF value.nan THEN 0 ELSE value.num

\* HomesScraper.parseDepositWithRent.
HomesParseDepositWithRent(text, rent) ==
    IF text = "" \/ text = "-" \/ text = "NS" THEN 0
    ELSE IF MatchMonths(text) # ""
         THEN rent * DecimalValue(MatchMonths(text))
         ELSE LET rentValue == HomesParseRent(text)
              IN  IF rentValue > 0 THEN rentValue ELSE 0

\* NiftyScraper.parseRent.
NiftyParseRent(text) ==
    IF text = "-" \/ text = "" THEN 0
    ELSE LET match == MatchNumericRun(text)
         IN  IF match = "" THEN 0
             ELSE LET value == ParseFloat(match)
                  IN  IF value.nan THEN 0 ELSE RoundTimes10000(value)

\* NiftyScraper.parseManagementFee.
NiftyParseManagementFee(text) ==
    IF text = "-" \/ text = "" THEN 0
    ELSE LET value == ParseIntDigits(StripNonDigits(text))
         IN  IF value.nan THEN 0 ELSE value.num

\* NiftyScraper.parseDepositWithRent.
NiftyParseDepositWithRent(text, rent) ==
    IF text = "" \/ text = "-" \/ text = "NS" THEN 0
    ELSE IF MatchMonths(text) # ""
         THEN rent * DecimalValue(MatchMonths(text))
         ELSE LET rentValue == NiftyParseRent(text)
              IN  IF rentValue > 0 THEN rentValue ELSE 0

\* ChintaiScraper.parseRent.
ChintaiParseRent(text) ==
    IF text = "-" \/ text = "" THEN 0
    ELSE LET match == MatchNumericRun(text)
         IN  IF match = "" THEN 0
             ELSE LET value == ParseFloat(match)
                  IN  IF value.nan THEN 0 ELSE RoundTimes10000(value)

\* ChintaiScraper.parseManagementFee.
ChintaiParseManagementFee(text) ==
    IF text = "-" \/ text = "" THEN 0
    ELSE LET value == ParseIntDigits(StripNonDigits(text))
         IN  IF value.nan THEN 0 ELSE value.num

\* ChintaiScraper.parseDeposit.
ChintaiParseDeposit(text) ==
    IF text = "-" \/ text = "--" \/ text = "" THEN 0
    ELSE LET value == ParseIntDigits(StripNonDigits(text))
         IN  IF value.nan THEN 0 ELSE value.num

\* ChintaiScraper.parseDepositWithRent.
ChintaiParseDepositWithRent(text, rent) ==
    IF text = "" \/ text = "-" \/ text = "--" THEN 0
    ELSE IF MatchMonths(text) # ""
         THEN rent * DecimalValue(MatchMonths(text))
         ELSE ChintaiParseDeposit(text)

(***************************************************************************)
(* External-id extraction: the regular expressions of the extractors.      *)
(***************************************************************************)
HexChars == {"0", "1", "2", "3", "4", "5", "6", "7", "8", "9",
             "a", "b", "c", "d", "e", "f"}

\* Character classes: [a-f0-9], [a-f0-9-] and [^/].
InClass(c, cls) ==
    /\ c # ""
    /\ CASE cls = "hex" -> c \in HexChars
         [] cls = "hexdash" -> c \in HexChars \cup {"-"}
         [] cls = "nonslash" -> c # "/"

StartsWithAt(s, lit, i) == SubSeq(s, i, i + Len(lit) - 1) = lit

\* String.prototype.startsWith
StartsWith(s, lit) == Len(s) >= Len(lit) /\ StartsWithAt(s, lit, 1)

\* The end of the maximal run of characters of class cls from i (i - 1 if none).
ClassRunEnd(s, i, cls) ==
    IF ~InClass(CharAt(s, i), cls) THEN i - 1
    ELSE CHOOSE j \in i..Len(s) :
            /\ \A k \in i..j : InClass(CharAt(s, k), cls)
            /\ ~InClass(CharAt(s, j + 1), cls)

\* s.match(/lit(cls+)tail/): the leftmost match's group, "" for null.  The
\* run is greedy, and no shorter run can be followed by tail, because tail
\* ("/" or nothing) is never of the class.
RegexCapture(s, lit, cls, tail) ==
    LET b(i) == i + Len(lit)
        ok(i) == /\ i + Len(lit) - 1 <= Len(s)
                 /\ StartsWithAt(s, lit, i)
                 /\ InClass(CharAt(s, b(i)), cls)
                 /\ tail # "" => CharAt(s, ClassRunEnd(s, b(i), cls) + 1) = tail
        starts == {i \in 1..Len(s) : ok(i)}
    IN  IF starts = {} THEN ""
        ELSE LET i == SetMin(starts)
             IN  SubSeq(s, b(i), ClassRunEnd(s, b(i), cls))

\* /\/chintai\/(jnc_[^/]+)\//  (SuumoScraper, current revision)
SuumoExternalId(u) ==
    LET m == RegexCapture(u, "/chintai/jnc_", "nonslash", "/")
    IN  IF m = "" THEN "" ELSE "jnc_" \o m

\* /\/chintai\/([^/]+)\//  (SuumoScraper, earlier revisions)
SuumoEarlyExternalId(u) == RegexCapture(u, "/chintai/", "nonslash", "/")

\* /\/properties\/([a-f0-9-]+)/  (DoorScraper)
DoorExternalId(u) == RegexCapture(u, "/properties/", "hexdash", "")

\* /\/chintai\/room\/([a-f0-9]+)\//  (HomesScraper)
HomesExternalId(u) == RegexCapture(u, "/chintai/room/", "hex", "/")

\* /detail_([a-f0-9]+)/  (NiftyScraper.scrapeDetail)
NiftyDetailExternalId(u) == RegexCapture(u, "detail_", "hex", "")

\* /\/detail\/([^/]+)\//  (ChintaiScraper.scrapeDetail)
ChintaiDetailExternalId(u) == RegexCapture(u, "/detail/", "nonslash", "/")

(***************************************************************************)
(* List pages.  A page is a sequence of building containers; a building    *)
(* has a name, the href of its title link (read by the earlier SUUMO       *)
(* revisions only) and a sequence of room rows; a room row carries the     *)
(* attributes the extractors read: its link (href, data-href or            *)
(* data-detailurl), its id attribute (data-detail-id, data-bkkey) and its  *)
(* rent text.  A record is what parseListHtml pushes for a row.            *)
(***************************************************************************)
\* A record whose name depends on whether the instance parsed before.
RecordAfterEarlierCalls(id, src, name, rent, sourceUrl) ==
    [externalId |-> id, source |-> src,
     name |-> IF calls = <<>> THEN name ELSE name \o "+",
     rent |-> rent, sourceUrl |-> sourceUrl]

Record(id, src, name, rent, sourceUrl) ==
    [externalId |-> id, source |-> src, name |-> name, rent |-> rent,
     sourceUrl |-> sourceUrl]

RECURSIVE Flatten(_)
Flatten(seqs) == IF seqs = <<>> THEN <<>> ELSE Head(seqs) \o Flatten(Tail(seqs))

\* href.startsWith('http') ? href : base + href
AbsoluteUrl(base, href) == IF StartsWith(href, "http") THEN href ELSE base \o href

\* SuumoScraper.parseListHtml, current revision: one record per room row,
\* rows without an external id skipped.
SuumoParseListHtml(page) ==
    Flatten([b \in 1..Len(page) |->
        LET rows == SelectSeq(page[b].rooms,
                              LAMBDA r : SuumoExternalId(r.href) # "")
        IN  [i \in 1..Len(rows) |->
                Record(SuumoExternalId(rows[i].href), "suumo", page[b].name,
                       SuumoParseRent(rows[i].rentText),
                       AbsoluteUrl("https://suumo.jp", rows[i].href))]])

\* The rent text the earlier revisions read: the text of every rent cell of
\* the building, concatenated.
RECURSIVE JoinRentTexts(_)
JoinRentTexts(rooms) ==
    IF rooms = <<>> THEN "" ELSE Head(rooms).rentText \o JoinRentTexts(Tail(rooms))

\* SuumoScraper.parseListHtml, earlier revisions: one record per building,
\* keyed by the title link, pushed whether or not an id was found.
SuumoEarlyParseListHtml(page) ==
    [b \in 1..Len(page) |->
        Record(SuumoEarlyExternalId(page[b].titleHref), "suumo", page[b].name,
               SuumoEarlyParseRent(JoinRentTexts(page[b].rooms)),
               AbsoluteUrl("https://suumo.jp", page[b].titleHref))]

\* DoorScraper.parseListHtml.
DoorParseListHtml(page) ==
    Flatten([b \in 1..Len(page) |->
        LET rows == SelectSeq(page[b].rooms,
                              LAMBDA r : DoorExternalId(r.href) # "")
        IN  [i \in 1..Len(rows) |->
                Record(DoorExternalId(rows[i].href), "door", page[b].name,
                       DoorParseRent(rows[i].rentText),
                       AbsoluteUrl("https://door.ac", rows[i].href))]])

\* HomesScraper.parseListHtml: the row's data-href is the source url as is.
HomesParseListHtml(page) ==
    Flatten([b \in 1..Len(page) |->
        LET rows == SelectSeq(page[b].rooms,
                              LAMBDA r : HomesExternalId(r.href) # "")
        IN  [i \in 1..Len(rows) |->
                Record(HomesExternalId(rows[i].href), "homes", page[b].name,
                       HomesParseRent(rows[i].rentText \o "MY"),
                       rows[i].href)]])

\* NiftyScraper.parseListHtml: the id is the data-detail-id attribute.
NiftyParseListHtml(page) ==
    Flatten([b \in 1..Len(page) |->
        LET rows == SelectSeq(page[b].rooms, LAMBDA r : r.idAttr # "")
        IN  [i \in 1..Len(rows) |->
                Record(rows[i].idAttr, "nifty", page[b].name,
                       NiftyParseRent(rows[i].rentText),
                       IF rows[i].href # ""
                       THEN "https://myhome.nifty.com" \o rows[i].href
                       ELSE "")]])

\* ChintaiScraper.parseListHtml: the id is the data-bkkey attribute, the
\* source url comes from data-detailurl.
ChintaiParseListHtml(page) ==
    Flatten([b \in 1..Len(page) |->
        LET rows == SelectSeq(page[b].rooms, LAMBDA r : r.idAttr # "")
        IN  [i \in 1..Len(rows) |->
                Record(rows[i].idAttr, "chintai", page[b].name,
                       ChintaiParseRent(rows[i].rentText \o "MY"),
                       IF rows[i].href # ""
                       THEN "https://www.chintai.net" \o rows[i].href
                       ELSE "")]])

(***************************************************************************)
(* The normalizer specification: one text, one normalizer applied to it.   *)
(***************************************************************************)
\* Generated texts: prefix, numeric core of at most MaxCore pieces, suffix.
CorePieces == {"1", "2", "5", "8", ".", ",000"}
TextPrefixes == {"", "-", "~"}
TextSuffixes == {"", "MY", "Y", "kG"}
SpecialTexts == {"NS", "--"}
Rents == {0, 63000, 85000}

RECURSIVE Cores(_)
Cores(n) ==
    IF n = 0 THEN {""}
    ELSE Cores(n - 1) \cup {c \o p : c \in Cores(n - 1), p \in CorePieces}

\* Cores of at most 9 digits, so that every value stays below 2^31.
MoneyTexts(n) ==
    {p \o c \o x : p \in TextPrefixes,
                   c \in {d \in Cores(n) : Len(StripNonDigits(d)) <= 9},
                   x \in TextSuffixes}
        \cup SpecialTexts

NoError == [kind |-> "none", message |-> "", at |-> "none"]
NoResult == [success |-> FALSE, properties |-> <<>>, error |-> "",
             hasError |-> FALSE, source |-> "none"]

ScrapeIdle ==
    /\ scraper = "none" /\ op = "idle" /\ url = "" /\ pc = "idle"
    /\ html = <<>> /\ thrown = NoError /\ result = NoResult
    /\ outcome = "none" /\ listed = <<>>

InitMoney ==
    /\ ScrapeIdle /\ StoreIdle
    /\ mFn = "none" /\ mText \in MoneyTexts(MaxCore) /\ mRent = 0 /\ mOut = 0

Apply(fn, rent, value) ==
    /\ mFn = "none"
    /\ mFn' = fn /\ mRent' = rent /\ mOut' = value
    /\ UNCHANGED <<mText, scrapeVars, storeVars>>

ApplySuumoParseRent == Apply("SuumoParseRent", 0, SuumoParseRent(mText))
ApplySuumoParseManagementFee ==
    Apply("SuumoParseManagementFee", 0, SuumoParseManagementFee(mText))
ApplySuumoEarlyParseRent ==
    Apply("SuumoEarlyParseRent", 0, SuumoEarlyParseRent(mText))
ApplySuumoEarlyParseManagementFee ==
    Apply("SuumoEarlyParseManagementFee", 0, SuumoEarlyParseManagementFee(mText))
ApplyDoorParseRent == Apply("DoorParseRent", 0, DoorParseRent(mText))
ApplyDoorParseManagementFee ==
    Apply("DoorParseManagementFee", 0, DoorParseManagementFee(mText))
ApplyDoorParseDepositWithRent ==
    \E r \in Rents :
        Apply("DoorParseDepositWithRent", r, DoorParseDepositWithRent(mText, r))
ApplyHomesParseRent == Apply("HomesParseRent", 0, HomesParseRent(mText))
ApplyHomesParseManagementFee ==
    Apply("HomesParseManagementFee", 0, HomesParseManagementFee(mText))
ApplyHomesParseDepositWithRent ==
    \E r \in Rents :
        Apply("HomesParseDepositWithRent", r, HomesParseDepositWithRent(mText, r))
ApplyNiftyParseRent == Apply("NiftyParseRent", 0, NiftyParseRent(mText))
ApplyNiftyParseManagementFee ==
    Apply("NiftyParseManagementFee", 0, NiftyParseManagementFee(mText))
ApplyNiftyParseDepositWithRent ==
    \E r \in Rents :
        Apply("NiftyParseDepositWithRent", r, NiftyParseDepositWithRent(mText, r))
ApplyChintaiParseRent == Apply("ChintaiParseRent", 0, ChintaiParseRent(mText))
ApplyChintaiParseManagementFee ==
    Apply("ChintaiParseManagementFee", 0, ChintaiParseManagementFee(mText))
ApplyChintaiParseDeposit ==
    Apply("ChintaiParseDeposit", 0, ChintaiParseDeposit(mText))
ApplyChintaiParseDepositWithRent ==
    \E r \in Rents :
        Apply("ChintaiParseDepositWithRent", r,
              ChintaiParseDepositWithRent(mText, r))

NextMoney ==
    \/ ApplySuumoParseRent
    \/ ApplySuumoParseManagementFee
    \/ ApplySuumoEarlyParseRent
    \/ ApplySuumoEarlyParseManagementFee
    \/ ApplyDoorParseRent
    \/ ApplyDoorParseManagementFee
    \/ ApplyDoorParseDepositWithRent
    \/ ApplyHomesParseRent
    \/ ApplyHomesParseManagementFee
    \/ ApplyHomesParseDepositWithRent
    \/ ApplyNiftyParseRent
    \/ ApplyNiftyParseManagementFee
    \/ ApplyNiftyParseDepositWithRent
    \/ ApplyChintaiParseRent
    \/ ApplyChintaiParseManagementFee
    \/ ApplyChintaiParseDeposit
    \/ ApplyChintaiParseDepositWithRent

SpecMoney == InitMoney /\ [][NextMoney]_vars


(***************************************************************************)
(* The scrapers.  "suumo", "door", "homes", "nifty" and "chintai" are the  *)
(* current classes; "suumoEarly" is the earlier SuumoScraper revision      *)
(* (building-level list parser, scrapeDetail not implemented);             *)
(* "suumoBare" is the earliest revision, a class with parseListHtml only;  *)
(* "chintaiEarly" is the ChintaiScraper revision without scrapeDetail.     *)
(***************************************************************************)
Scrapers == {"suumo", "suumoEarly", "suumoBare", "door", "homes", "nifty",
             "chintai", "chintaiEarly"}

\* readonly source = '...'
SourceOf(s) ==
    CASE s \in {"suumo", "suumoEarly", "suumoBare"} -> "suumo"
      [] s = "door" -> "door"
      [] s = "homes" -> "homes"
      [] s = "nifty" -> "nifty"
      [] s \in {"chintai", "chintaiEarly"} -> "chintai"

HasScrapeList(s) == s # "suumoBare"
HasParseDetail(s) == s \in {"suumo", "door", "homes", "nifty", "chintai"}
DetailNotImplemented(s) == s \in {"suumoEarly", "chintaiEarly"}

ParseListHtml(s, page) ==
    CASE s = "suumo" -> SuumoParseListHtml(page)
      [] s \in {"suumoEarly", "suumoBare"} -> SuumoEarlyParseListHtml(page)
      [] s = "door" -> DoorParseListHtml(page)
      [] s = "homes" -> HomesParseListHtml(page)
      [] s = "nifty" -> NiftyParseListHtml(page)
      [] s \in {"chintai", "chintaiEarly"} -> ChintaiParseListHtml(page)

\* The id scrapeDetail derives from the url it was called with.
DetailExternalId(s, u) ==
    CASE s = "suumo" -> SuumoExternalId(u)
      [] s = "door" -> DoorExternalId(u)
      [] s = "homes" -> HomesExternalId(u)
      [] s = "nifty" -> NiftyDetailExternalId(u)
      [] s = "chintai" -> ChintaiDetailExternalId(u)

\* The rent parseDetailHtml reads from a detail page.
DetailRent(s, page) ==
    CASE s = "suumo" -> SuumoParseRent(page.rentText)
      [] s = "door" -> DoorParseRent(page.rentText)
      [] s = "homes" -> HomesParseRent(page.rentText \o "MY")
      [] s = "nifty" -> NiftyParseRent(page.rentText)
      [] s = "chintai" -> ChintaiParseRent(page.rentText \o "MY")

\* The property scrapeDetail builds: the id comes from the url, an empty
\* string when the pattern does not match, and the record is returned
\* either way.
DetailProperty(s, u, page) ==
    Record(DetailExternalId(s, u), SourceOf(s), page.name,
           DetailRent(s, page), u)

\* toPartialProperty copies the fields of a scraped record.
ToPartialProperty(p) ==
    [externalId |-> p.externalId, source |-> p.source, name |-> p.name,
     rent |-> p.rent, sourceUrl |-> p.sourceUrl]

(***************************************************************************)
(* Result envelopes.  hasError tells whether the object has an error key.  *)
(***************************************************************************)
SuccessResult(s, props) ==
    [success |-> TRUE, properties |-> props, error |-> "",
     hasError |-> FALSE, source |-> SourceOf(s)]

\* A failure envelope without the error key.
FailureResultWithoutError(s, e) ==
    [success |-> FALSE, properties |-> <<>>, error |-> "",
     hasError |-> FALSE, source |-> SourceOf(s)]

\* An error message read from the thrown value whatever it is.
ErrorMessageUnchecked(e) == e.message

\* error instanceof Error ? error.message : 'Unknown error'
ErrorMessage(e) == IF e.kind = "Error" THEN e.message ELSE "Unknown error"

FailureResult(s, e) ==
    [success |-> FALSE, properties |-> <<>>, error |-> ErrorMessage(e),
     hasError |-> TRUE, source |-> SourceOf(s)]

NotImplementedResult(s) ==
    [success |-> FALSE, properties |-> <<>>, error |-> "Not implemented",
     hasError |-> TRUE, source |-> SourceOf(s)]

\* A try block that ends before the parse call.
TryCoversUntilFetch(step) == step \in {"rateLimit", "fetch"}

\* The steps of scrapeList / scrapeDetail that stand inside the try block.
TryCovers(step) == step \in {"rateLimit", "fetch", "parse"}

(***************************************************************************)
(* Inputs: room rows, list pages, detail pages, urls, thrown values.       *)
(***************************************************************************)
Row(href, idAttr, rentText) ==
    [href |-> href, idAttr |-> idAttr, rentText |-> rentText]

\* Per source: a row with an id, a second row with another id, and a row
\* from which no id can be read.
Rows(s) ==
    CASE s \in {"suumo", "suumoEarly", "suumoBare"} ->
            {Row("/chintai/jnc_0001/?bc=1", "", "8.5MY"),
             Row("https://suumo.jp/chintai/jnc_0002/", "", "12MY"),
             Row("/chintai/bc_0003/", "", "-")}
      [] s = "door" ->
            {Row("/buildings/b1/properties/a1b2-c3", "", "8.5MY"),
             Row("https://door.ac/buildings/b1/properties/d4e5-f6", "", "12MY"),
             Row("/buildings/b1", "", "-")}
      [] s = "homes" ->
            {Row("https://www.homes.co.jp/chintai/room/30f52/", "", "8.5"),
             Row("https://www.homes.co.jp/chintai/room/9ac01/", "", "12"),
             Row("", "", "")}
      [] s = "nifty" ->
            {Row("/rent/detail_a1f/", "a1f", "8.5MY"),
             Row("/rent/detail_b2e/", "b2e", "12MY"),
             Row("/rent/detail_c3d/", "", "-")}
      [] s \in {"chintai", "chintaiEarly"} ->
            {Row("/detail/bk-C01/", "C01", "8.5"),
             Row("/detail/bk-C02/", "C02", "12"),
             Row("/detail/bk-C03/", "", "")}

\* Whether a row carries an id, by the pattern of the source's current
\* extractor.
RowHasId(s, r) ==
    CASE s \in {"suumo", "suumoEarly", "suumoBare"} -> SuumoExternalId(r.href) # ""
      [] s = "door" -> DoorExternalId(r.href) # ""
      [] s = "homes" -> HomesExternalId(r.href) # ""
      [] s \in {"nifty", "chintai", "chintaiEarly"} -> r.idAttr # ""

IndexChars == <<"1", "2", "3", "4", "5">>

\* The title links of the buildings of a page: none (the layout the current
\* SUUMO extractor reads) or one link per building.
TitleHrefs(s) ==
    IF s \in {"suumo", "suumoEarly", "suumoBare"}
    THEN {[b \in 1..MaxRooms |-> ""],
          [b \in 1..MaxRooms |-> "/chintai/jnc_9" \o IndexChars[b] \o "/"]}
    ELSE {[b \in 1..MaxRooms |-> ""]}

RowSeqs(s, m) == UNION {[1..n -> Rows(s)] : n \in 0..m}

\* Every way to cut a row sequence into buildings, each with at least one
\* row: the sequences of the lengths of the groups.
RECURSIVE Cuts(_)
Cuts(n) ==
    IF n = 0 THEN {<<>>}
    ELSE UNION {{<<k>> \o rest : rest \in Cuts(n - k)} : k \in 1..n}

RECURSIVE GroupRows(_, _)
GroupRows(rs, cut) ==
    IF cut = <<>> THEN <<>>
    ELSE <<SubSeq(rs, 1, Head(cut))>>
            \o GroupRows(SubSeq(rs, Head(cut) + 1, Len(rs)), Tail(cut))

BuildPage(groups, t) ==
    [b \in 1..Len(groups) |-> [name |-> "B" \o IndexChars[b],
                               titleHref |-> t[b],
                               rooms |-> groups[b]]]

ListPages(s) ==
    UNION {{BuildPage(GroupRows(rs, cut), t) :
                cut \in Cuts(Len(rs)), t \in TitleHrefs(s)} :
            rs \in RowSeqs(s, MaxRooms)}

DetailPages == {[name |-> "D1", rentText |-> "8.5"],
                [name |-> "", rentText |-> ""]}

ListUrl == "https://example.test/list"

\* Urls for scrapeDetail besides those of listed records: one that matches
\* the source's pattern and one that does not.
DetailUrls(s) ==
    CASE s \in {"suumo", "suumoEarly"} -> {"https://suumo.jp/chintai/jnc_0001/",
                                          "https://suumo.jp/library/"}
      [] s = "door" -> {"https://door.ac/buildings/b1/properties/a1b2-c3",
                        "https://door.ac/buildings/b1"}
      [] s = "homes" -> {"https://www.homes.co.jp/chintai/room/30f52/",
                         "https://www.homes.co.jp/chintai/"}
      [] s = "nifty" -> {"https://myhome.nifty.com/rent/detail_a1f/",
                         "https://myhome.nifty.com/rent/"}
      [] s \in {"chintai", "chintaiEarly"} -> {"https://www.chintai.net/detail/bk-C01/",
                                               "https://www.chintai.net/list/"}

SourceUrlsOf(records) == {records[i].sourceUrl : i \in 1..Len(records)}

\* What a step can throw: an Error with a message, or a value that is not
\* an Error.
Throwables == {[kind |-> "Error", message |-> "request failed"],
               [kind |-> "value", message |-> ""]}


(***************************************************************************)
(* The scraper specification: one scraper object and the calls made on it. *)
(* A scrapeList / scrapeDetail call walks                                  *)
(*   rateLimit -> fetch -> parse -> done                                   *)
(* and any of the three steps may throw.  listed holds the records the     *)
(* caller got from its list extraction.  A run is one list extraction      *)
(* (a direct parseListHtml call or a scrapeList call) followed by any      *)
(* number of scrapeDetail calls; the scraper keeps nothing between calls.  *)
(***************************************************************************)
MoneyIdle == mFn = "none" /\ mText = "" /\ mRent = 0 /\ mOut = 0

Init ==
    /\ scraper \in Scrapers
    /\ op = "idle" /\ url = "" /\ pc = "idle"
    /\ html = <<>> /\ thrown = NoError /\ result = NoResult
    /\ outcome = "none" /\ listed = <<>>
    /\ MoneyIdle /\ StoreIdle

NoCallRunning == pc \in {"idle", "done"}

\* A direct call of the public parseListHtml.
CallParseListHtml ==
    /\ pc = "idle"
    /\ \E page \in ListPages(scraper) :
        /\ html' = page
        /\ listed' = ParseListHtml(scraper, page)
    /\ op' = "parseListHtml" /\ url' = "" /\ pc' = "done"
    /\ thrown' = NoError /\ result' = NoResult /\ outcome' = "returned"
    /\ UNCHANGED <<scraper, moneyVars, storeVars>>

\* A call that starts at the fetch, without the rate-limit wait.
StartCallAtFetch(o, u) ==
    /\ op' = o /\ url' = u /\ pc' = "fetch"
    /\ html' = <<>> /\ thrown' = NoError /\ result' = NoResult
    /\ outcome' = "none"

StartCall(o, u) ==
    /\ op' = o /\ url' = u /\ pc' = "rateLimit"
    /\ html' = <<>> /\ thrown' = NoError /\ result' = NoResult
    /\ outcome' = "none"

CallScrapeList ==
    /\ pc = "idle"
    /\ HasScrapeList(scraper)
    /\ StartCall("scrapeList", ListUrl)
    /\ listed' = <<>>
    /\ UNCHANGED <<scraper, moneyVars, storeVars>>

CallScrapeDetail ==
    /\ NoCallRunning
    /\ HasParseDetail(scraper)
    /\ \E u \in DetailUrls(scraper) \cup SourceUrlsOf(listed) :
        StartCall("scrapeDetail", u)
    /\ UNCHANGED <<scraper, listed, moneyVars, storeVars>>

\* scrapeDetail of the revisions that do not implement it.
CallScrapeDetailNotImplemented ==
    /\ NoCallRunning
    /\ DetailNotImplemented(scraper)
    /\ \E u \in DetailUrls(scraper) \cup SourceUrlsOf(listed) : url' = u
    /\ op' = "scrapeDetail" /\ pc' = "done"
    /\ html' = <<>> /\ thrown' = NoError
    /\ result' = NotImplementedResult(scraper)
    /\ outcome' = "returned"
    /\ UNCHANGED <<scraper, listed, moneyVars, storeVars>>

\* await this.respectRateLimit() resolves.
RateLimitDone ==
    /\ pc = "rateLimit"
    /\ pc' = "fetch"
    /\ UNCHANGED <<scraper, op, url, html, thrown, result, outcome, listed,
                   moneyVars, storeVars>>

\* await this.fetchWithRetry(url) resolves with a page.
FetchReturns ==
    /\ pc = "fetch"
    /\ html' \in (IF op = "scrapeList" THEN ListPages(scraper) ELSE DetailPages)
    /\ pc' = "parse"
    /\ UNCHANGED <<scraper, op, url, thrown, result, outcome, listed,
                   moneyVars, storeVars>>

\* A step throws e: control goes to the catch block when the step stands
\* inside the try block, out of the call otherwise.
Throw(step, e) ==
    /\ pc = step
    /\ thrown' = [kind |-> e.kind, message |-> e.message, at |-> step]
    /\ html' = <<>>
    /\ IF TryCovers(step)
       THEN pc' = "catch" /\ outcome' = outcome
       ELSE pc' = "done" /\ outcome' = "raised"
    /\ UNCHANGED <<scraper, op, url, result, listed, moneyVars, storeVars>>

RateLimitThrows == \E e \in Throwables : Throw("rateLimit", e)
FetchThrows == \E e \in Throwables : Throw("fetch", e)
\* The parser (the DOM library) throws on the fetched page.
ParseThrows == \E e \in Throwables : Throw("parse", e)

\* The parse step completes and the success envelope is returned.
ParseReturns ==
    /\ pc = "parse"
    /\ LET props ==
            IF op = "scrapeList"
            THEN LET ps == ParseListHtml(scraper, html)
                 IN  [i \in 1..Len(ps) |-> ToPartialProperty(ps[i])]
            ELSE <<DetailProperty(scraper, url, html)>>
       IN  /\ result' = SuccessResult(scraper, props)
           /\ listed' = IF op = "scrapeList" THEN props ELSE listed
    /\ pc' = "done" /\ outcome' = "returned" /\ html' = <<>>
    /\ UNCHANGED <<scraper, op, url, thrown, moneyVars, storeVars>>

\* The catch block returns the failure envelope.
CatchReturns ==
    /\ pc = "catch"
    /\ result' = FailureResult(scraper, thrown)
    /\ pc' = "done" /\ outcome' = "returned"
    /\ UNCHANGED <<scraper, op, url, html, thrown, listed, moneyVars, storeVars>>

Next ==
    \/ CallParseListHtml
    \/ CallScrapeList
    \/ CallScrapeDetail
    \/ CallScrapeDetailNotImplemented
    \/ RateLimitDone
    \/ RateLimitThrows
    \/ FetchReturns
    \/ FetchThrows
    \/ ParseThrows
    \/ ParseReturns
    \/ CatchReturns

Spec == Init /\ [][Next]_vars


(***************************************************************************)
(* Properties of the list and detail extraction (specification Spec).      *)
(***************************************************************************)
ParseListDone == op = "parseListHtml" /\ pc = "done"
Returned(o) == op = o /\ pc = "done" /\ outcome = "returned"

RecordsOfBuilding(records, name) ==
    Cardinality({i \in 1..Len(records) : records[i].name = name})

RowsWithoutId(s, rooms) ==
    Cardinality({i \in 1..Len(rooms) : ~RowHasId(s, rooms[i])})

\* C1: after parseListHtml of any extractor revision on any page, no record
\* has an empty externalId, and a building of which exactly one room row has
\* no extractable id contributes one record less than it has rows.
C1_NoEmptyIdOneRowDropped ==
    ParseListDone =>
        /\ \A i \in 1..Len(listed) : listed[i].externalId # ""
        /\ \A b \in 1..Len(html) :
              RowsWithoutId(scraper, html[b].rooms) = 1
                 => RecordsOfBuilding(listed, html[b].name)
                        = Len(html[b].rooms) - 1

\* The extractors that skip a row without an id.
SkippingExtractors == Scrapers \ {"suumoEarly", "suumoBare"}

\* C2: the records of one parseListHtml call have pairwise distinct
\* externalIds, also on a page with two rows that carry the same id.  Stated
\* for the extractors that emit no empty id, so that two equal ids are two
\* equal real ids.
C2_PairwiseDistinctIds ==
    (ParseListDone /\ scraper \in SkippingExtractors) =>
        \A i, j \in 1..Len(listed) :
            i # j => listed[i].externalId # listed[j].externalId

\* C3: every returned result of scrapeList / scrapeDetail, the unimplemented
\* scrapeDetail included, has no properties and an error when success is
\* false, no error key when success is true, and the scraper's source tag.
C3_EnvelopeShape ==
    (pc = "done" /\ op \in {"scrapeList", "scrapeDetail"}
                 /\ outcome = "returned") =>
        /\ ~result.success => (result.properties = <<>> /\ result.hasError)
        /\ result.success => ~result.hasError
        /\ result.source = SourceOf(scraper)

C3_Witness ==
    /\ Returned("scrapeDetail")
    /\ DetailNotImplemented(scraper)
    /\ ~result.success /\ result.properties = <<>>
    /\ result.error = "Not implemented"
    /\ result.source = "chintai"

\* C4: when the rate-limit wait or the fetch throws, the call does not raise:
\* it returns success = false, no properties, and the Error's message, or
\* 'Unknown error' when the thrown value is not an Error.
C4_FetchFailureIsReturned ==
    thrown.at \in {"rateLimit", "fetch"} =>
        /\ outcome # "raised"
        /\ pc = "done" =>
              /\ outcome = "returned"
              /\ ~result.success /\ result.properties = <<>>
              /\ result.hasError
              /\ result.error = (IF thrown.kind = "Error" THEN thrown.message
                                 ELSE "Unknown error")

C4_Witness ==
    /\ Returned("scrapeList")
    /\ thrown.at = "fetch" /\ thrown.kind = "value"
    /\ ~result.success /\ result.error = "Unknown error"

\* C5 as stated: when the parse step throws after a successful fetch, the
\* exception leaves scrapeList / scrapeDetail uncaught and no envelope is
\* returned.
C5_ParseExceptionPropagates ==
    (thrown.at = "parse" /\ pc = "done") =>
        (outcome = "raised" /\ result = NoResult)

\* C5, amended: the parse call stands inside the same try block as the
\* fetch, so when it throws the call returns success = false, no properties
\* and the message ('Unknown error' for a non-Error), and does not raise.
C5_ParseExceptionIsReturned ==
    thrown.at = "parse" =>
        /\ outcome # "raised"
        /\ pc = "done" =>
              /\ outcome = "returned"
              /\ ~result.success /\ result.properties = <<>>
              /\ result.hasError
              /\ result.error = (IF thrown.kind = "Error" THEN thrown.message
                                 ELSE "Unknown error")

C5_Witness ==
    /\ Returned("scrapeDetail")
    /\ thrown.at = "parse" /\ thrown.kind = "Error"
    /\ ~result.success /\ result.error = "request failed"

\* C6: for a source with both passes, scrapeDetail on the sourceUrl of a
\* listed record returns, on a successful fetch, a record with the listed
\* record's externalId.
C6_DetailKeepsListId ==
    (Returned("scrapeDetail") /\ result.success) =>
        \A i \in 1..Len(listed) :
            listed[i].sourceUrl = url
                => result.properties[1].externalId = listed[i].externalId

\* C7: scrapeDetail never returns a record with an empty externalId; with a
\* url that does not match the source's pattern the record is dropped.
C7_NoEmptyIdFromDetail ==
    (Returned("scrapeDetail") /\ result.success) =>
        \A i \in 1..Len(result.properties) :
            result.properties[i].externalId # ""


(***************************************************************************)
(* Properties of the monetary normalizers (specification SpecMoney).       *)
(***************************************************************************)
\* C8: every monetary value produced by parseRent, parseManagementFee,
\* parseDeposit and parseDepositWithRent of any extractor revision is a
\* non-negative integer, also for a text with a leading minus sign and for
\* a text without digits.
C8_MonetaryValuesNonNegative ==
    mFn # "none" => mOut \in Nat

\* The parseRent of each source's current extractor.
C9_ParseRentFns == {"SuumoParseRent", "DoorParseRent", "HomesParseRent",
                    "NiftyParseRent", "ChintaiParseRent"}

C9_ParseRentOf(fn, text) ==
    CASE fn = "SuumoParseRent" -> SuumoParseRent(text)
      [] fn = "DoorParseRent" -> DoorParseRent(text)
      [] fn = "HomesParseRent" -> HomesParseRent(text)
      [] fn = "NiftyParseRent" -> NiftyParseRent(text)
      [] fn = "ChintaiParseRent" -> ChintaiParseRent(text)

C9_NumericChars == {"0", "1", "2", "3", "4", "5", "6", "7", "8", "9", "."}

\* The first maximal run of digits and points of a text, "" when it has none.
C9_FirstNumericRun(text) ==
    LET at == {i \in 1..Len(text) : CharAt(text, i) \in C9_NumericChars}
    IN  IF at = {} THEN ""
        ELSE LET a == SetMin(at)
                 b == SetMin({j \in a..Len(text) :
                                 CharAt(text, j + 1) \notin C9_NumericChars})
             IN  SubSeq(text, a, b)

\* round(v * 10000) for the number v the first numeric run reads as; 0 for
\* '-', 'NS', the empty text, and a text with no run that reads as a number.
C9_TenThousandYen(text) ==
    LET v == ParseFloat(C9_FirstNumericRun(text))
    IN  IF text \in {"-", "NS", ""} \/ v.nan THEN 0
        ELSE (2 * v.num * 10000 + Pow10(v.scale)) \div (2 * Pow10(v.scale))

C9_BareNumeral(text) ==
    /\ text # ""
    /\ \A i \in 1..Len(text) : CharAt(text, i) \in C9_NumericChars

C10_ManagementFeeFns == {"SuumoParseManagementFee", "SuumoEarlyParseManagementFee",
                         "DoorParseManagementFee", "HomesParseManagementFee",
                         "NiftyParseManagementFee", "ChintaiParseManagementFee"}

C10_EndsWith(text, suffix) ==
    /\ Len(text) > Len(suffix)
    /\ SubSeq(text, Len(text) - Len(suffix) + 1, Len(text)) = suffix

C10_Front(text, suffix) == SubSeq(text, 1, Len(text) - Len(suffix))

\* Digits, possibly with thousands separators, starting with a digit.
C10_YenDigits(d) ==
    /\ IsDigit(CharAt(d, 1))
    /\ \A i \in 1..Len(d) : IsDigit(CharAt(d, i)) \/ CharAt(d, i) = ","

\* A numeral with at most one point and a digit on each side of it.
C10_Numeral(n) ==
    /\ IsDigit(CharAt(n, 1)) /\ IsDigit(CharAt(n, Len(n)))
    /\ \A i \in 1..Len(n) : IsDigit(CharAt(n, i)) \/ CharAt(n, i) = "."
    /\ Cardinality({i \in 1..Len(n) : CharAt(n, i) = "."}) <= 1

\* C10: parseManagementFee of every source returns yen: digits with thousands
\* separators before 'Y' are read as yen, a numeral before 'MY' is multiplied
\* by 10000 and rounded, and '-', 'NS' and the empty text give 0.
C10_ManagementFeeInYen ==
    mFn \in C10_ManagementFeeFns =>
        /\ mText \in {"-", "NS", ""} => mOut = 0
        /\ (C10_EndsWith(mText, "MY") /\ C10_Numeral(C10_Front(mText, "MY")))
              => mOut = C9_TenThousandYen(C10_Front(mText, "MY"))
        /\ (~C10_EndsWith(mText, "MY") /\ C10_EndsWith(mText, "Y")
                /\ C10_YenDigits(C10_Front(mText, "Y")))
              => mOut = DecimalValue(StripNonDigits(mText))


\* String.prototype.includes for a substring.
IncludesText(s, sub) ==
    \E i \in 1..(Len(s) - Len(sub) + 1) : StartsWithAt(s, sub, i)

(***************************************************************************)
(* The pet-condition parser (utils/pet-condition-parser.ts).  In a pet     *)
(* text one ASCII character stands for each Japanese unit:                 *)
(*   c cat (U+732B)        d dog (U+72AC)       z small-size (U+5C0F U+578B)*)
(*   P pet (U+30DA U+30C3 U+30C8)   a allowed (U+53EF)                      *)
(*   q negotiable (U+76F8 U+8AC7)   f, i keeping (U+98FC, U+80B2)           *)
(*   { } full-width parentheses     ( ) ASCII parentheses                   *)
(*   h, H counters (U+5339, U+982D) u up-to (U+307E U+3067)                 *)
(*   D deposit (U+6577 U+91D1)      p plus (U+30D7 U+30E9 U+30B9)           *)
(*   k, K, G months as in the money texts; A added, Z raised, o only.       *)
(***************************************************************************)
\* number | null, and number | undefined.
NullNumber == [null |-> TRUE, value |-> 0]
Number(n) == [null |-> FALSE, value |-> n]

\* conditions.join(' ')
RECURSIVE JoinWithSpace(_)
JoinWithSpace(conditions) ==
    IF conditions = <<>> THEN ""
    ELSE IF Len(conditions) = 1 THEN Head(conditions)
    ELSE Head(conditions) \o " " \o JoinWithSpace(Tail(conditions))

\* /c|Pa|Pq/.test(text)
IsCatAllowed(text) ==
    IncludesText(text, "c") \/ IncludesText(text, "Pa") \/ IncludesText(text, "Pq")

\* A dog test without the generic phrases: /d/.test(text)
IsDogAllowedByDogOnly(text) == IncludesText(text, "d")

\* /d|Pa|Pq/.test(text)
IsDogAllowed(text) ==
    IncludesText(text, "d") \/ IncludesText(text, "Pa") \/ IncludesText(text, "Pq")

\* /zd/.test(text)
IsSmallDogOnly(text) == IncludesText(text, "zd")

\* The end of the maximal run of characters of a set from i (i - 1 if none).
RunEnd(s, i, chars) ==
    IF CharAt(s, i) \notin chars \/ CharAt(s, i) = "" THEN i - 1
    ELSE CHOOSE j \in i..Len(s) :
            /\ \A k \in i..j : CharAt(s, k) \in chars
            /\ (CharAt(s, j + 1) \notin chars \/ j = Len(s))

\* (\d+)[hH]u from position p: the digits, "" when it does not match there.
\* The digit run is maximal: a shorter one would be followed by a digit.
CountAt(s, p) ==
    LET e == DigitRunEnd(s, p)
    IN  IF e >= p /\ CharAt(s, e + 1) \in {"h", "H"} /\ CharAt(s, e + 2) = "u"
        THEN SubSeq(s, p, e) ELSE ""

\* /c[fia]*[{(]?(\d+)[hH]u/ tried at position i.  The class run and the
\* optional parenthesis are greedy, and no shorter choice can match.
CatCountAt(s, i) ==
    IF CharAt(s, i) # "c" THEN ""
    ELSE LET j == RunEnd(s, i + 1, {"f", "i", "a"}) + 1
             p == IF CharAt(s, j) \in {"{", "("} THEN j + 1 ELSE j
         IN  CountAt(s, p)

\* /c[^})]*[{(](\d+)[hH]u[})]/ tried at position i: the greedy [^})]* gives
\* the rightmost opening parenthesis from which the rest matches.
CatBracketAt(s, i) ==
    IF CharAt(s, i) # "c" THEN ""
    ELSE LET opens == {q \in (i + 1)..Len(s) :
                          /\ \A k \in (i + 1)..(q - 1) : CharAt(s, k) \notin {"}", ")"}
                          /\ CharAt(s, q) \in {"{", "("}
                          /\ CountAt(s, q + 1) # ""
                          /\ CharAt(s, q + 1 + Len(CountAt(s, q + 1)) + 2)
                                \in {"}", ")"}}
         IN  IF opens = {} THEN ""
             ELSE CountAt(s, (CHOOSE q \in opens : \A r \in opens : r <= q) + 1)

\* The group of the leftmost match of a pattern tried position by position.
LeftmostGroup(s, At(_, _)) ==
    LET starts == {i \in 1..Len(s) : At(s, i) # ""}
    IN  IF starts = {} THEN "" ELSE At(s, SetMin(starts))

\* A limit read from the first count of the text, whatever animal it is
\* written after.
ExtractLimitOfAnyAnimal(text) ==
    LET match == LeftmostGroup(text, CountAt)
    IN  IF match # "" THEN Number(DecimalValue(match)) ELSE NullNumber

\* extractCatLimit
ExtractCatLimit(text) ==
    LET match == LeftmostGroup(text, CatCountAt)
        bracketMatch == LeftmostGroup(text, CatBracketAt)
    IN  IF match # "" THEN Number(DecimalValue(match))
        ELSE IF bracketMatch # "" THEN Number(DecimalValue(bracketMatch))
        ELSE NullNumber

\* /D(?:p|\+)?(\d+)[kK]G[AZ]?/ tried at position i; the optional last class
\* does not change the group.
DepositMonthsAt(s, i) ==
    IF CharAt(s, i) # "D" THEN ""
    ELSE LET p == IF CharAt(s, i + 1) \in {"p", "+"} THEN i + 2 ELSE i + 1
             e == DigitRunEnd(s, p)
         IN  IF e >= p /\ CharAt(s, e + 1) \in {"k", "K"} /\ CharAt(s, e + 2) = "G"
             THEN SubSeq(s, p, e) ELSE ""

\* extractAdditionalDeposit: !rentAmount holds for undefined and for 0.
ExtractAdditionalDeposit(text, rentAmount) ==
    IF rentAmount.null \/ rentAmount.value = 0 THEN NullNumber
    ELSE LET match == LeftmostGroup(text, DepositMonthsAt)
         IN  IF match # "" THEN Number(rentAmount.value * DecimalValue(match))
             ELSE NullNumber

\* notes: string | undefined, and the string | null the result carries.
NoNotes == [null |-> TRUE, value |-> ""]
Notes(t) == [null |-> FALSE, value |-> t]

\* A PetConditions object or null.
NullPetConditions == [isNull |-> TRUE]

\* parsePetConditions(conditions, rentAmount, notes); notes ?? null.
ParsePetConditions(conditions, rentAmount, notes) ==
    LET joinedText == JoinWithSpace(conditions)
    IN  [isNull |-> FALSE,
         catAllowed |-> IsCatAllowed(joinedText),
         catLimit |-> ExtractCatLimit(joinedText),
         dogAllowed |-> IsDogAllowed(joinedText),
         smallDogOnly |-> IsSmallDogOnly(joinedText),
         additionalDeposit |-> ExtractAdditionalDeposit(joinedText, rentAmount),
         notes |-> notes]


(***************************************************************************)
(* The detail-page specification: one direct call of the public            *)
(* parseDetailHtml of a scraper that has one.  A detail page carries the   *)
(* texts the parser reads: the rent, the deposit, the key money and the    *)
(* pet section.                                                            *)
(***************************************************************************)
\* The deposit (or key money) parseDetailHtml derives from its text and the
\* rent of the same page.  SuumoScraper hands the text to parseRent; the
\* other sources to their parseDepositWithRent.
DetailDeposit(s, text, rent) ==
    CASE s = "suumo" -> SuumoParseRent(text)
      [] s = "door" -> DoorParseDepositWithRent(text, rent)
      [] s = "homes" -> HomesParseDepositWithRent(text, rent)
      [] s = "nifty" -> NiftyParseDepositWithRent(text, rent)
      [] s = "chintai" -> ChintaiParseDepositWithRent(text, rent)

\* String.prototype.trim for the spaces of a cell text.
RECURSIVE Trim(_)
Trim(t) ==
    IF t = "" THEN ""
    ELSE IF CharAt(t, 1) = " " THEN Trim(SubSeq(t, 2, Len(t)))
    ELSE IF CharAt(t, Len(t)) = " " THEN Trim(SubSeq(t, 1, Len(t) - 1))
    ELSE t

\* The texts of the pet list items, trimmed, the empty ones left out.
PetItemTexts(page) ==
    SelectSeq([i \in 1..Len(page.petItems) |-> Trim(page.petItems[i])],
              LAMBDA condition : condition # "")

\* SuumoScraper reads no additional-cost row; the other sources push the
\* trimmed text of theirs when it is not empty.
ReadsAdditionalCost(s) == s # "suumo"

PetConditionTexts(s, page) ==
    PetItemTexts(page)
      \o (IF ReadsAdditionalCost(s) /\ Trim(page.additionalCost) # ""
          THEN <<Trim(page.additionalCost)>> ELSE <<>>)

\* The notes handed on: the trimmed text of the remarks row when the page
\* has one; ChintaiScraper hands on only a non-empty text.
PetNotes(s, page) ==
    IF ~page.hasNotesRow THEN NoNotes
    ELSE IF s = "chintai" /\ Trim(page.notesText) = "" THEN NoNotes
    ELSE Notes(Trim(page.notesText))

\* parsePetConditionsFromHtml without its length test.
ParsePetConditionsFromHtmlUnguarded(s, page, rent) ==
    ParsePetConditions(PetConditionTexts(s, page), Number(rent), PetNotes(s, page))

\* parsePetConditionsFromHtml
ParsePetConditionsFromHtml(s, page, rent) ==
    IF Len(PetConditionTexts(s, page)) = 0 THEN NullPetConditions
    ELSE ParsePetConditions(PetConditionTexts(s, page), Number(rent),
                            PetNotes(s, page))

\* The monetary fields and the pet conditions of the record parseDetailHtml
\* returns.
ParseDetailHtml(s, page) ==
    LET rent == DetailRent(s, page)
    IN  [rent |-> rent,
         deposit |-> DetailDeposit(s, page.depositText, rent),
         keyMoney |-> DetailDeposit(s, page.keyMoneyText, rent),
         petConditions |-> ParsePetConditionsFromHtml(s, page, rent)]

DetailRentTexts == {"8.5", "11.5MY", ""}
DetailDepositTexts == {"2kG", "1KG", "12kG", "-", "NS", "", "8.5MY", "85,000Y"}

DetailMoneyPages ==
    {[name |-> "D1", rentText |-> r, depositText |-> d, keyMoneyText |-> k,
      petItems |-> <<>>, additionalCost |-> "",
      hasNotesRow |-> FALSE, notesText |-> ""] :
        r \in DetailRentTexts, d \in DetailDepositTexts, k \in DetailDepositTexts}

MaxFragments == 2

\* The texts of the list items of a page's pet row.
PetItems == {"", " ", "cfia{2hu}", "Pq", "zdfia{1hu}"}

\* The lists of at most n of the given values.
ListsUpTo(values, n) == UNION {[1..k -> values] : k \in 0..n}

\* Detail pages with a pet section: list items, an additional-cost row
\* (empty text when absent) and a remarks row that is there or not.
DetailPetPages ==
    {[name |-> "D1", rentText |-> r, depositText |-> "", keyMoneyText |-> "",
      petItems |-> items, additionalCost |-> cost,
      hasNotesRow |-> notes[1], notesText |-> notes[2]] :
        r \in {"8.5", ""},
        items \in ListsUpTo(PetItems, MaxFragments),
        cost \in {"", "D1kGA"},
        notes \in {<<FALSE, "">>, <<TRUE, "">>, <<TRUE, "n">>}}

InitDetail ==
    /\ scraper \in {s \in Scrapers : HasParseDetail(s)}
    /\ op = "idle" /\ url = "" /\ pc = "idle"
    /\ html = <<>> /\ thrown = NoError /\ result = NoResult
    /\ outcome = "none" /\ listed = <<>>
    /\ MoneyIdle /\ StoreIdle

CallParseDetailHtml ==
    /\ pc = "idle"
    /\ \E page \in DetailMoneyPages \cup DetailPetPages :
        /\ html' = page
        /\ result' = ParseDetailHtml(scraper, page)
    /\ op' = "parseDetailHtml" /\ pc' = "done" /\ outcome' = "returned"
    /\ UNCHANGED <<scraper, url, thrown, listed, moneyVars, storeVars>>

NextDetail == CallParseDetailHtml

SpecDetail == InitDetail /\ [][NextDetail]_vars

(***************************************************************************)
(* Properties of the detail-page extraction (specification SpecDetail).    *)
(***************************************************************************)
ParseDetailDone == op = "parseDetailHtml" /\ pc = "done"

\* A text of the form 'N months': digits followed by 'kG' or 'KG'.
C11_MonthsForm(text) ==
    /\ Len(text) > 2
    /\ SubSeq(text, Len(text) - 1, Len(text)) \in {"kG", "KG"}
    /\ \A i \in 1..(Len(text) - 2) : IsDigit(CharAt(text, i))

C11_Months(text) == DecimalValue(SubSeq(text, 1, Len(text) - 2))

C11_FieldOk(text, value) ==
    /\ C11_MonthsForm(text) => value = C11_Months(text) * result.rent
    /\ text \in {"-", "NS", ""} => value = 0

\* C11: in the record of every parseDetailHtml, a deposit (key money) text
\* of the form 'N months' gives N times the rent of the same record, and
\* the texts '-', 'NS' and the absent text give 0.
C11_DepositMonthsTimesRent ==
    ParseDetailDone =>
        /\ C11_FieldOk(html.depositText, result.deposit)
        /\ C11_FieldOk(html.keyMoneyText, result.keyMoney)


(***************************************************************************)
(* The text specification: one text, one text function applied to it.      *)
(* Compass characters are written n (U+5317), e (U+6771), s (U+5357) and   *)
(* w (U+897F); x is any other character.                                    *)
(***************************************************************************)
MaxTextLen == 2     \* characters of a generated direction text

\* Object.entries(directionMap): the keys in insertion order.
DirectionMap == << <<"n", "north">>, <<"ne", "northeast">>, <<"e", "east">>,
                   <<"se", "southeast">>, <<"s", "south">>,
                   <<"sw", "southwest">>, <<"w", "west">>,
                   <<"nw", "northwest">> >>

\* for (const [jp, en] of entries) if (text.includes(jp)) return en;
\* return null
FirstIncludedEntry(entries, text) ==
    LET hits == {i \in 1..Len(entries) : IncludesText(text, entries[i][1])}
    IN  IF hits = {} THEN "null" ELSE entries[SetMin(hits)][2]

\* SuumoScraper.parseDirection.
SuumoParseDirection(text) == FirstIncludedEntry(DirectionMap, text)
\* HomesScraper.parseDirection, on the text of the direction row.
HomesParseDirection(text) == FirstIncludedEntry(DirectionMap, text)
\* NiftyScraper.parseDirection.
NiftyParseDirection(text) == FirstIncludedEntry(DirectionMap, text)
\* ChintaiScraper.parseDirection.
ChintaiParseDirection(text) == FirstIncludedEntry(DirectionMap, text)

DirectionChars == {"n", "e", "s", "w", "x"}

RECURSIVE TextsOver(_, _)
TextsOver(chars, n) ==
    IF n = 0 THEN {""}
    ELSE TextsOver(chars, n - 1)
            \cup {t \o c : t \in TextsOver(chars, n - 1), c \in chars}

DirectionTexts(n) == TextsOver(DirectionChars, n)

InitText ==
    /\ ScrapeIdle /\ StoreIdle
    /\ mFn = "none" /\ mText \in DirectionTexts(MaxTextLen)
    /\ mRent = 0 /\ mOut = 0

ApplySuumoParseDirection ==
    Apply("SuumoParseDirection", 0, SuumoParseDirection(mText))
ApplyHomesParseDirection ==
    Apply("HomesParseDirection", 0, HomesParseDirection(mText))
ApplyNiftyParseDirection ==
    Apply("NiftyParseDirection", 0, NiftyParseDirection(mText))
ApplyChintaiParseDirection ==
    Apply("ChintaiParseDirection", 0, ChintaiParseDirection(mText))

NextText ==
    \/ ApplySuumoParseDirection
    \/ ApplyHomesParseDirection
    \/ ApplyNiftyParseDirection
    \/ ApplyChintaiParseDirection

SpecText == InitText /\ [][NextText]_vars

(***************************************************************************)
(* Properties of the text functions (specification SpecText).              *)
(***************************************************************************)
C12_ParseDirectionFns == {"SuumoParseDirection", "HomesParseDirection",
                          "NiftyParseDirection", "ChintaiParseDirection"}

\* C12: for every source's parseDirection, a text containing a two-character
\* compound maps to that compound ('ne' to northeast, 'se' to southeast,
\* 'sw' to southwest, 'nw' to northwest) and never to one of its single
\* characters; a text without a compass character maps to null.
C12_CompoundsBeforeSingles ==
    mFn \in C12_ParseDirectionFns =>
        /\ IncludesText(mText, "ne") => mOut = "northeast"
        /\ IncludesText(mText, "se") => mOut = "southeast"
        /\ IncludesText(mText, "sw") => mOut = "southwest"
        /\ IncludesText(mText, "nw") => mOut = "northwest"
        /\ (\A i \in 1..Len(mText) : CharAt(mText, i) = "x") => mOut = "null"


(***************************************************************************)
(* Calls of parsePetConditions: a fragment list, an optional rent and      *)
(* optional notes are drawn, then the function is applied once.            *)
(***************************************************************************)
PetFragments ==
    {"cfia", "Pa", "Pq", "cfia{2hu}", "c1hu", "c3Hu", "dfia", "zdfia{1hu}",
     "D1kGA", "Dp2kG"}

PetRents == {NullNumber, Number(0), Number(85000)}

InitPet ==
    /\ ScrapeIdle /\ StoreIdle
    /\ mFn = "none" /\ mOut = 0
    /\ mRent \in PetRents
    /\ \E conditions \in ListsUpTo(PetFragments, MaxFragments),
          notes \in {NoNotes, Notes("n")} :
            mText = [conditions |-> conditions, notes |-> notes]

ApplyParsePetConditions ==
    Apply("parsePetConditions", mRent,
          ParsePetConditions(mText.conditions, mRent, mText.notes))

NextPet == ApplyParsePetConditions

SpecPet == InitPet /\ [][NextPet]_vars

PetParsed == mFn = "parsePetConditions"

SomeFragmentHas(conditions, sub) ==
    \E i \in 1..Len(conditions) : IncludesText(conditions[i], sub)

\* C13: parsePetConditions sets catAllowed exactly when a fragment holds the
\* cat character or one of the two generic pet phrases, and dogAllowed
\* exactly when a fragment holds the dog character or one of the generic
\* phrases; a generic phrase alone sets both flags; the empty list gives
\* false for the three flags and null for catLimit and additionalDeposit.
C13_CatAndDogFlags ==
    PetParsed =>
        LET conditions == mText.conditions
            generic == SomeFragmentHas(conditions, "Pa")
                         \/ SomeFragmentHas(conditions, "Pq")
        IN  /\ mOut.catAllowed = (SomeFragmentHas(conditions, "c") \/ generic)
            /\ mOut.dogAllowed = (SomeFragmentHas(conditions, "d") \/ generic)
            /\ (conditions \in {<<"Pa">>, <<"Pq">>}
                    => mOut.catAllowed /\ mOut.dogAllowed)
            /\ (conditions = <<>> =>
                    /\ ~mOut.catAllowed /\ ~mOut.dogAllowed /\ ~mOut.smallDogOnly
                    /\ mOut.catLimit = NullNumber
                    /\ mOut.additionalDeposit = NullNumber)

C13_Witness ==
    /\ PetParsed
    /\ mText.conditions = <<"Pq">>
    /\ mOut.catAllowed /\ mOut.dogAllowed


HasDigit(f) == \E i \in 1..Len(f) : IsDigit(CharAt(f, i))

\* The count a single fragment gives: the digits of "Nhu" or "NHu" directly
\* after the cat mention and its keeping-allowed words, with or without an
\* opening parenthesis; "" when the fragment has no such count.
C14_OwnCount(f) ==
    LET counts == {n \in {"1", "2", "3"} :
                      \E open \in {"", "{", "("}, unit \in {"h", "H"},
                         words \in {"", "a", "fia"} :
                          IncludesText(f, "c" \o words \o open \o n \o unit \o "u")}
    IN  IF counts = {} THEN "" ELSE CHOOSE n \in counts : TRUE

\* C14: catLimit is N only when some fragment carries the count N right
\* after its cat mention; when no fragment that mentions the cat carries a
\* count, catLimit is null, whatever count the other fragments carry.
C14_CatLimitOnlyFromCatMention ==
    PetParsed =>
        LET conditions == mText.conditions
        IN  /\ ~mOut.catLimit.null =>
                \E i \in 1..Len(conditions) :
                    /\ C14_OwnCount(conditions[i]) # ""
                    /\ mOut.catLimit = Number(DecimalValue(C14_OwnCount(conditions[i])))
            /\ (\A i \in 1..Len(conditions) :
                    IncludesText(conditions[i], "c") => ~HasDigit(conditions[i]))
                => mOut.catLimit = NullNumber

\* C15: additionalDeposit is null exactly when no rentAmount was supplied or
\* no fragment holds a deposit-months phrase; with a rentAmount supplied,
\* 0 included, and a phrase of N months it is rentAmount * N.
C15_PhraseMonths(conditions) ==
    LET months == {n \in 1..2 :
                      \E i \in 1..Len(conditions), plus \in {"", "p", "+"},
                         k \in {"k", "K"} :
                          IncludesText(conditions[i],
                                       "D" \o plus \o ToString(n) \o k \o "G")}
    IN  months

C15_AdditionalDepositIsRentTimesMonths ==
    PetParsed =>
        LET conditions == mText.conditions
            months == C15_PhraseMonths(conditions)
        IN  /\ mOut.additionalDeposit.null = (mRent.null \/ months = {})
            /\ (~mRent.null /\ months # {}) =>
                \E n \in months :
                    mOut.additionalDeposit = Number(mRent.value * n)


\* The condition texts an extractor finds in a page: the non-empty list
\* items of the pet row and, where the source reads it, the non-empty text
\* of the additional-cost row.
C16_FragmentsFound(s, page) ==
    {i \in 1..Len(page.petItems) : page.petItems[i] \notin {"", " "}}
      \cup (IF s # "suumo" /\ page.additionalCost # "" THEN {0} ELSE {})

\* C16: parseDetailHtml gives petConditions = null exactly when it found no
\* non-empty condition text in the page, and a PetConditions record
\* otherwise; a remarks row without any condition text gives null.
C16_PetConditionsNullIffNoFragment ==
    ParseDetailDone =>
        /\ result.petConditions.isNull = (C16_FragmentsFound(scraper, html) = {})
        /\ (html.hasNotesRow /\ C16_FragmentsFound(scraper, html) = {})
                => result.petConditions = NullPetConditions

C16_Witness ==
    /\ ParseDetailDone
    /\ html.hasNotesRow /\ html.notesText = "n"
    /\ html.petItems = <<"", " ">> /\ html.additionalCost = ""
    /\ result.petConditions = NullPetConditions


(***************************************************************************)
(* parseAddress, the same in every scraper class.  One ASCII character     *)
(* stands for each character of an address:                                *)
(*   N U D  Hokkaido (U+5317 U+6D77 U+9053)   E K T  Tokyo-to              *)
(*   O S F  Osaka-fu    K T F  Kyoto-fu       g  the suffix -ken (U+770C)  *)
(*   m city (U+5E02)  w ward (U+533A)  t town (U+753A)  v village (U+6751) *)
(*   x and 1 any other character.                                          *)
(***************************************************************************)
MunicipalityChars == {"m", "w", "t", "v"}

\* The ends of (?:NUD|EKT|OSF|KTF|.{2,3}g) tried at position i, in the
\* order the regex engine tries them: the names, then three and then two
\* characters before the suffix.
PrefectureEnds(s, i) ==
    LET name(n) == IF i + 2 <= Len(s) /\ SubSeq(s, i, i + 2) = n
                   THEN <<i + 2>> ELSE <<>>
        ken(k) == IF i + k <= Len(s) /\ CharAt(s, i + k) = "g"
                  THEN <<i + k>> ELSE <<>>
    IN  name("NUD") \o name("EKT") \o name("OSF") \o name("KTF")
          \o ken(3) \o ken(2)

\* The end of .+?[mwtv] from position p: the first municipality character
\* after at least one other character; 0 when there is none.
CityEnd(s, p) ==
    LET ends == {j \in (p + 1)..Len(s) : CharAt(s, j) \in MunicipalityChars}
    IN  IF ends = {} THEN 0 ELSE SetMin(ends)

\* The group of the city pattern tried at position i: of the prefecture
\* ends, the first after which the rest matches.
CityAt(s, i) ==
    LET ends == SelectSeq(PrefectureEnds(s, i), LAMBDA e : CityEnd(s, e + 1) # 0)
    IN  IF ends = <<>> THEN ""
        ELSE SubSeq(s, ends[1] + 1, CityEnd(s, ends[1] + 1))

\* parseAddress: the first pattern is anchored at the start of the address,
\* the second one is tried at every position.
ParseAddress(address) ==
    LET prefectureEnds == PrefectureEnds(address, 1)
    IN  [prefecture |-> IF prefectureEnds = <<>> THEN ""
                        ELSE SubSeq(address, 1, prefectureEnds[1]),
         city |-> LeftmostGroup(address, CityAt)]

AddressLeads == {"", "x", "1x"}
AddressPrefectures == {"", "NUD", "EKT", "OSF", "KTF", "xxg", "xxxg", "xg"}
AddressChars == {"x", "m", "w", "g"}

Addresses(n) ==
    {lead \o prefecture \o rest :
        lead \in AddressLeads, prefecture \in AddressPrefectures,
        rest \in TextsOver(AddressChars, n)}

InitAddress ==
    /\ ScrapeIdle /\ StoreIdle
    /\ mFn = "none" /\ mText \in Addresses(MaxTextLen)
    /\ mRent = 0 /\ mOut = 0

ApplyParseAddress == Apply("parseAddress", 0, ParseAddress(mText))

NextAddress == ApplyParseAddress

SpecAddress == InitAddress /\ [][NextAddress]_vars

\* The prefecture name an address starts with: one of the four names, or
\* two or three characters and the suffix -ken; "" when it starts with none.
C17_LeadingPrefecture(address) ==
    LET names == {n \in {"NUD", "EKT", "OSF", "KTF"} :
                     Len(address) >= 3 /\ SubSeq(address, 1, 3) = n}
        kens == {k \in {3, 4} : Len(address) >= k /\ CharAt(address, k) = "g"}
    IN  IF names # {} THEN CHOOSE n \in names : TRUE
        ELSE IF 4 \in kens THEN SubSeq(address, 1, 4)
        ELSE IF 3 \in kens THEN SubSeq(address, 1, 3)
        ELSE ""

\* The span after the first p characters up to and including the first
\* municipality suffix that closes a name; "" when there is none.
C17_CityAfter(address, p) ==
    LET ends == {j \in (p + 2)..Len(address) :
                    CharAt(address, j) \in {"m", "w", "t", "v"}}
    IN  IF ends = {} THEN ""
        ELSE SubSeq(address, p + 1, CHOOSE j \in ends : \A k \in ends : j <= k)

\* C17: parseAddress gives the prefecture name the address starts with, or
\* "", and as city the span right after that prefecture up to and including
\* the first municipality suffix; an address that starts with no prefecture
\* gets prefecture "" and city "".
C17_CityFollowsLeadingPrefecture ==
    mFn = "parseAddress" =>
        LET prefecture == C17_LeadingPrefecture(mText)
        IN  /\ mOut.prefecture = prefecture
            /\ mOut.city = IF prefecture = "" THEN ""
                           ELSE C17_CityAfter(mText, Len(prefecture))


(***************************************************************************)
(* Repeated list extraction: parseListHtml is called again and again, on   *)
(* one of two instances of the same scraper class.  The first call and the *)
(* latest one are remembered with the records they returned.               *)
(***************************************************************************)
Instances == {"a", "b"}

\* The empty page and the pages of one building with one room row.
RepeatPages(s) ==
    {<<>>} \cup {BuildPage(<<<<row>>>>, t) : row \in Rows(s), t \in TitleHrefs(s)}

InitRepeat ==
    /\ scraper \in Scrapers
    /\ op = "idle" /\ url = "" /\ pc = "idle"
    /\ html = <<>> /\ thrown = NoError /\ result = NoResult
    /\ outcome = "none" /\ listed = <<>>
    /\ MoneyIdle /\ StoreIdle

CallParseListHtmlAgain ==
    /\ NoCallRunning
    /\ \E instance \in Instances, page \in RepeatPages(scraper) :
        LET call == [instance |-> instance, html |-> page,
                     records |-> ParseListHtml(scraper, page)]
        IN  /\ html' = page
            /\ listed' = call.records
            /\ calls' = IF calls = <<>> THEN <<call>> ELSE <<calls[1], call>>
    /\ op' = "parseListHtml" /\ url' = "" /\ pc' = "done"
    /\ thrown' = NoError /\ result' = NoResult /\ outcome' = "returned"
    /\ UNCHANGED <<scraper, moneyVars, dbRows, dbCall, appVars>>

NextRepeat == CallParseListHtmlAgain

SpecRepeat == InitRepeat /\ [][NextRepeat]_vars

MaxProperties == 2   \* records of one upsertProperties call, ids of one list

DbSources == {"suumo", "door"}
DbIds == {"a1", "b2"}

\* The records handed to upsertProperties; "" is a missing externalId.
PropertyInputs ==
    {[source |-> source, externalId |-> id] :
        source \in DbSources, id \in DbIds \cup {""}}

\* toRow
ToRow(property) ==
    [external_id |-> property.externalId, source |-> property.source,
     is_active |-> TRUE]

\* select('id').eq('external_id', id).single(): the row when exactly one
\* row matches, null otherwise.
ExistingRows(table, id) == {r \in table : r.external_id = id}

\* update(row).eq('external_id', id): every column of toRow overwrites the
\* matching row.
UpdateRows(table, row) ==
    {IF r.external_id = row.external_id THEN row ELSE r : r \in table}

\* insert(row) under the UNIQUE constraint on external_id.
InsertFails(table, row) == ExistingRows(table, row.external_id) # {}

\* What the database client does on the calls made for one record: "none"
\* (every call succeeds), "error" (the update or insert returns an error)
\* or "throws" (the select call throws an Error).
Faults == {"none", "error", "throws"}

\* The loop body without the report of a missing externalId.
UpsertOneSkippingMissingId(st, property, fault) ==
    IF property.externalId = "" THEN st
    ELSE IF fault = "throws"
    THEN [st EXCEPT !.reads = @ + 1, !.errors = Append(@, "request failed")]
    ELSE IF Cardinality(ExistingRows(st.table, property.externalId)) = 1
    THEN IF fault = "error"
         THEN [st EXCEPT !.reads = @ + 1, !.writes = @ + 1,
                         !.errors = Append(@, "Update failed: db error")]
         ELSE [st EXCEPT !.reads = @ + 1, !.writes = @ + 1,
                         !.table = UpdateRows(@, ToRow(property)),
                         !.updated = @ + 1]
    ELSE IF fault = "error" \/ InsertFails(st.table, ToRow(property))
    THEN [st EXCEPT !.reads = @ + 1, !.writes = @ + 1,
                    !.errors = Append(@, "Insert failed: db error")]
    ELSE [st EXCEPT !.reads = @ + 1, !.writes = @ + 1,
                    !.table = @ \cup {ToRow(property)},
                    !.inserted = @ + 1]

\* One pass of the loop body of upsertProperties over state
\* [table, inserted, updated, errors, reads, writes]; reads and writes
\* count the calls made on the database client.
UpsertOne(st, property, fault) ==
    IF property.externalId = ""
    THEN [st EXCEPT !.errors = Append(@, "Missing externalId")]
    ELSE IF fault = "throws"
    THEN [st EXCEPT !.reads = @ + 1, !.errors = Append(@, "request failed")]
    ELSE IF Cardinality(ExistingRows(st.table, property.externalId)) = 1
    THEN IF fault = "error"
         THEN [st EXCEPT !.reads = @ + 1, !.writes = @ + 1,
                         !.errors = Append(@, "Update failed: db error")]
         ELSE [st EXCEPT !.reads = @ + 1, !.writes = @ + 1,
                         !.table = UpdateRows(@, ToRow(property)),
                         !.updated = @ + 1]
    ELSE IF fault = "error" \/ InsertFails(st.table, ToRow(property))
    THEN [st EXCEPT !.reads = @ + 1, !.writes = @ + 1,
                    !.errors = Append(@, "Insert failed: db error")]
    ELSE [st EXCEPT !.reads = @ + 1, !.writes = @ + 1,
                    !.table = @ \cup {ToRow(property)},
                    !.inserted = @ + 1]

RECURSIVE UpsertAll(_, _, _)
UpsertAll(st, properties, faults) ==
    IF properties = <<>> THEN st
    ELSE UpsertAll(UpsertOne(st, Head(properties), Head(faults)),
                   Tail(properties), Tail(faults))

\* The state the loop of upsertProperties starts from.
UpsertStart(table) ==
    [table |-> table, inserted |-> 0, updated |-> 0, errors |-> <<>>,
     reads |-> 0, writes |-> 0]

\* activeExternalIds.join(',')
RECURSIVE JoinWithComma(_)
JoinWithComma(ids) ==
    IF ids = <<>> THEN ""
    ELSE IF Len(ids) = 1 THEN Head(ids)
    ELSE Head(ids) \o "," \o JoinWithComma(Tail(ids))

\* The values of the list filter in.(...): the text between the commas.
RECURSIVE ListValues(_)
ListValues(text) ==
    LET commas == {i \in 1..Len(text) : CharAt(text, i) = ","}
    IN  IF commas = {} THEN {text}
        ELSE {SubSeq(text, 1, SetMin(commas) - 1)}
                \cup ListValues(SubSeq(text, SetMin(commas) + 1, Len(text)))

\* The rows deactivateMissing updates whatever their source.
SelectedIgnoringSource(table, source, ids) ==
    {r \in table : r.is_active
                    /\ r.external_id \notin ListValues(JoinWithComma(ids))}

\* .eq('source', source).eq('is_active', true).not('external_id', 'in', ...)
SelectedForDeactivation(table, source, ids) ==
    {r \in table : /\ r.source = source
                   /\ r.is_active
                   /\ r.external_id \notin ListValues(JoinWithComma(ids))}

\* The tables the service can find: at most one row for an external_id.
Tables ==
    {table \in SUBSET {[external_id |-> id, source |-> source,
                        is_active |-> active] :
                          id \in DbIds, source \in DbSources,
                          active \in BOOLEAN} :
        \A r, q \in table : r.external_id = q.external_id => r = q}

InitDb ==
    /\ ScrapeIdle /\ MoneyIdle
    /\ calls = <<>> /\ dbRows \in Tables /\ dbCall = NoDbCall /\ AppIdle

UpsertProperties ==
    /\ dbCall = NoDbCall
    /\ \E properties \in ListsUpTo(PropertyInputs, MaxProperties) :
        \E faults \in [1..Len(properties) -> Faults] :
            LET st == UpsertAll(UpsertStart(dbRows), properties, faults)
            IN  /\ dbRows' = st.table
                /\ dbCall' = [op |-> "upsertProperties",
                              properties |-> properties,
                              reads |-> st.reads, writes |-> st.writes,
                              returned |-> [inserted |-> st.inserted,
                                            updated |-> st.updated,
                                            errors |-> st.errors]]
    /\ UNCHANGED <<scrapeVars, moneyVars, calls, appVars>>

DeactivateMissing ==
    /\ dbCall = NoDbCall
    /\ \E source \in DbSources, ids \in ListsUpTo(DbIds, MaxProperties) :
        LET selected == IF Len(ids) = 0 THEN {}
                        ELSE SelectedForDeactivation(dbRows, source, ids)
        IN  /\ dbRows' = (dbRows \ selected)
                           \cup {[r EXCEPT !.is_active = FALSE] : r \in selected}
            /\ dbCall' = [op |-> "deactivateMissing", source |-> source,
                          ids |-> ids, returned |-> Cardinality(selected)]
    /\ UNCHANGED <<scrapeVars, moneyVars, calls, appVars>>

NextDb == UpsertProperties \/ DeactivateMissing

SpecDb == InitDb /\ [][NextDb]_vars

HasRowOf(table, source, id) ==
    \E r \in table : r.source = source /\ r.external_id = id

\* C19: upsertProperties matches by the pair (source, externalId): a stored
\* row stays as it is unless a record of its own source and externalId
\* comes in, and after a call without errors every record has a row of its
\* own source and externalId.
C19_UpsertKeyedBySourceAndId ==
    [][dbCall'.op = "upsertProperties" =>
        LET properties == dbCall'.properties
        IN  /\ \A r \in dbRows :
                (\A i \in 1..Len(properties) :
                    ~(properties[i].source = r.source
                        /\ properties[i].externalId = r.external_id))
                    => r \in dbRows'
            /\ dbCall'.returned.errors = <<>> =>
                \A i \in 1..Len(properties) :
                    HasRowOf(dbRows', properties[i].source,
                             properties[i].externalId)]_vars

C29_PetRecordConsistent ==
    PetParsed =>
        /\ mOut.smallDogOnly => mOut.dogAllowed
        /\ ~mOut.catLimit.null => mOut.catAllowed

C29_Witness ==
    /\ PetParsed
    /\ mText.conditions = <<"zdfia{1hu}", "c3Hu">>
    /\ mOut.smallDogOnly /\ mOut.dogAllowed
    /\ mOut.catLimit = Number(3) /\ mOut.catAllowed


C30_DepositWithRentFns ==
    {"DoorParseDepositWithRent", "HomesParseDepositWithRent",
     "NiftyParseDepositWithRent", "ChintaiParseDepositWithRent"}

\* C30: the parseDepositWithRent copies of DoorScraper, HomesScraper,
\* NiftyScraper and ChintaiScraper return the same amount for every text
\* and every rent.
C30_DepositWithRentCopiesAgree ==
    mFn \in C30_DepositWithRentFns =>
        /\ mOut = DoorParseDepositWithRent(mText, mRent)
        /\ mOut = HomesParseDepositWithRent(mText, mRent)
        /\ mOut = NiftyParseDepositWithRent(mText, mRent)
        /\ mOut = ChintaiParseDepositWithRent(mText, mRent)


\* The steps of a scrapeList / scrapeDetail call of an implemented
\* operation.
C21_InCall == pc \in {"rateLimit", "fetch", "parse", "catch"}

\* C21: a scrapeList / scrapeDetail call starts with the rate-limit wait, a
\* fetch starts only when the wait has completed, the parse step starts only
\* after a fetch that returned and is left for the end of the call (it is
\* never entered again within the call), and the call ends with exactly one
\* envelope: success = true after the parse, success = false otherwise.
C21_StepOrder ==
    /\ [][/\ (pc' = "rateLimit" /\ pc # "rateLimit") => pc \in {"idle", "done"}
          /\ (pc' = "fetch" /\ pc # "fetch") => pc = "rateLimit"
          /\ (pc' = "parse" /\ pc # "parse") => pc = "fetch"
          /\ pc = "parse" => pc' \in {"parse", "catch", "done"}
          /\ pc = "catch" => pc' \in {"catch", "done"}
          /\ (pc = "parse" /\ pc' = "done") => result'.success
          /\ (pc = "catch" /\ pc' = "done") => ~result'.success
          /\ (C21_InCall /\ pc' = "done") =>
                (outcome' = "returned" /\ pc \in {"parse", "catch"})]_vars
    /\ [](C21_InCall => (result = NoResult /\ outcome = "none"))

C21_Witness ==
    /\ Returned("scrapeDetail")
    /\ thrown = NoError
    /\ result.success /\ Len(result.properties) = 1


C27_WithoutId(properties) ==
    {i \in 1..Len(properties) : properties[i].externalId = ""}

C27_MissingIdErrors(errors) ==
    {i \in 1..Len(errors) : errors[i] = "Missing externalId"}

\* C27: upsertProperties counts every input record exactly once, as
\* inserted, as updated or as one error, whatever the database client
\* does; a record without externalId gives the error 'Missing externalId'
\* and no call on the database client.
C27_EveryRecordCountedOnce ==
    dbCall.op = "upsertProperties" =>
        LET r == dbCall.returned
            properties == dbCall.properties
            withId == Len(properties) - Cardinality(C27_WithoutId(properties))
        IN  /\ r.inserted + r.updated + Len(r.errors) = Len(properties)
            /\ Cardinality(C27_MissingIdErrors(r.errors))
                    = Cardinality(C27_WithoutId(properties))
            /\ dbCall.reads = withId
            /\ dbCall.writes <= withId

C27_Witness ==
    /\ dbCall.op = "upsertProperties"
    /\ Len(dbCall.properties) = 2
    /\ dbCall.properties[1].externalId = ""
    /\ dbCall.returned.errors = <<"Missing externalId", "Update failed: db error">>
    /\ dbCall.reads = 1

(***************************************************************************)
(* usePropertyStore (apps/web): the pinia store of the property pages.     *)
(* An action that awaits the database is two steps: the part before the    *)
(* await, which sets loading and resolves the paging parameters, and the   *)
(* part after it, which runs when the request settles.  Several calls can  *)
(* be between the two at once: nothing serialises the page's onMounted     *)
(* fetch, the search form's watcher and the pagination handler.            *)
(***************************************************************************)
\* The calls started over the life of one store.
MaxCalls == 3

\* error: null
NullStoreError == "null"

\* The state() factory of the store.
InitialStoreState ==
    [properties |-> <<>>, loading |-> FALSE, error |-> NullStoreError,
     total |-> 0, page |-> 1, perPage |-> 20]

\* A parameter of PropertySearchParams that the caller left out.
Absent == [given |-> FALSE, value |-> 0]
Given(n) == [given |-> TRUE, value |-> n]

\* params.x ?? this.x
OrElse(param, current) == IF param.given THEN param.value ELSE current

PageParams == {Absent, Given(1), Given(2)}
PerPageParams == {Absent, Given(20), Given(50)}

\* What the request can resolve to: { data, count } with no error.
\* data ?? [] and count ?? 0 turn a null data / count into [] / 0.
StoreResponses == {[data |-> <<>>, count |-> 0],
                   [data |-> <<"row1">>, count |-> 1],
                   [data |-> <<"row1">>, count |-> 25]}

\* e instanceof Error ? e.message : <the fixed message>
StoreErrorMessage(e) ==
    IF e.kind = "Error" THEN e.message ELSE "fetch failed"

\* The fields of the store that state() declares.
StoreState(st) ==
    [properties |-> st.properties, loading |-> st.loading,
     error |-> st.error, total |-> st.total, page |-> st.page,
     perPage |-> st.perPage]

InitStore ==
    /\ ScrapeIdle /\ MoneyIdle
    /\ calls = <<>> /\ dbRows = {} /\ dbCall = NoDbCall /\ run = NoRun
    /\ store = [created |-> TRUE, properties |-> <<>>, loading |-> FALSE,
                error |-> NullStoreError, total |-> 0, page |-> 1,
                perPage |-> 20, pending |-> {}, started |-> 0,
                last |-> "created"]

\* fetchProperties up to its await: loading = true, error = null, and
\* page / perPage read from the parameters or from the store.
BeginFetchProperties(st, pageParam, perPageParam, via) ==
    [st EXCEPT !.loading = TRUE, !.error = NullStoreError,
               !.started = st.started + 1,
               !.pending = st.pending \cup
                   {[id |-> st.started + 1, op |-> "fetchProperties",
                     page |-> OrElse(pageParam, st.page),
                     perPage |-> OrElse(perPageParam, st.perPage)]},
               !.last = via]

FetchProperties ==
    /\ store.started < MaxCalls
    /\ \E pageParam \in PageParams, perPageParam \in PerPageParams :
        store' = BeginFetchProperties(store, pageParam, perPageParam,
                                      "fetchProperties")
    /\ UNCHANGED <<scrapeVars, moneyVars, calls, dbRows, dbCall, run>>

\* changePage(page): await this.fetchProperties({ page })
ChangePage ==
    /\ store.started < MaxCalls
    /\ \E page \in {1, 2} :
        store' = BeginFetchProperties(store, Given(page), Absent, "changePage")
    /\ UNCHANGED <<scrapeVars, moneyVars, calls, dbRows, dbCall, run>>

\* fetchPropertyById up to its await.
FetchPropertyById ==
    /\ store.started < MaxCalls
    /\ store' = [store EXCEPT !.loading = TRUE, !.error = NullStoreError,
                              !.started = store.started + 1,
                              !.pending = store.pending \cup
                                  {[id |-> store.started + 1,
                                    op |-> "fetchPropertyById",
                                    page |-> 0, perPage |-> 0]},
                              !.last = "fetchPropertyById"]
    /\ UNCHANGED <<scrapeVars, moneyVars, calls, dbRows, dbCall, run>>

\* The request of a fetchProperties call resolves without error: the try
\* block stores the rows, the count and the paging, finally clears loading.
FetchPropertiesResolves ==
    /\ \E call \in store.pending, response \in StoreResponses :
        /\ call.op = "fetchProperties"
        /\ store' = [store EXCEPT !.properties = response.data,
                                  !.total = response.count,
                                  !.page = call.page,
                                  !.perPage = call.perPage,
                                  !.loading = FALSE,
                                  !.pending = store.pending \ {call},
                                  !.last = "resolved"]
    /\ UNCHANGED <<scrapeVars, moneyVars, calls, dbRows, dbCall, run>>

\* The request of a fetchPropertyById call resolves: the row is returned,
\* finally clears loading.
FetchPropertyByIdResolves ==
    /\ \E call \in store.pending :
        /\ call.op = "fetchPropertyById"
        /\ store' = [store EXCEPT !.loading = FALSE,
                                  !.pending = store.pending \ {call},
                                  !.last = "resolved"]
    /\ UNCHANGED <<scrapeVars, moneyVars, calls, dbRows, dbCall, run>>

\* The request of either action fails: catch stores the message, finally
\* clears loading.
FetchFails ==
    /\ \E call \in store.pending, e \in Throwables :
        store' = [store EXCEPT !.error = StoreErrorMessage(e),
                               !.loading = FALSE,
                               !.pending = store.pending \ {call},
                               !.last = "failed"]
    /\ UNCHANGED <<scrapeVars, moneyVars, calls, dbRows, dbCall, run>>

\* reset(): five assignments.
Reset ==
    /\ store' = [store EXCEPT !.properties = <<>>, !.loading = FALSE,
                              !.error = NullStoreError, !.total = 0,
                              !.page = 1, !.last = "reset"]
    /\ UNCHANGED <<scrapeVars, moneyVars, calls, dbRows, dbCall, run>>

NextStore ==
    \/ FetchProperties
    \/ ChangePage
    \/ FetchPropertyById
    \/ FetchPropertiesResolves
    \/ FetchPropertyByIdResolves
    \/ FetchFails
    \/ Reset

SpecStore == InitStore /\ [][NextStore]_vars

\* C22: right after reset(), whatever calls came before, every state field
\* has its initial value: properties = [], loading = false, error = null,
\* total = 0, page = 1, perPage = 20.
C22_ResetRestoresInitialState ==
    store.last = "reset" => StoreState(store) = InitialStoreState

\* C28: loading is true whenever at least one fetchProperties or
\* fetchPropertyById call is still in flight, also when calls overlap and
\* one of them has finished.
C28_LoadingWhilePending ==
    (store.last \in {"resolved", "failed"} /\ store.pending # {})
        => store.loading = TRUE

(***************************************************************************)
(* The run scripts (scripts/scrape:suumo, scrape:chintai): main() walks    *)
(* the search urls, scrapes each list page, optionally merges the detail   *)
(* pages (CHINTAI), collects the external ids, saves through the           *)
(* DatabaseService unless --dry-run, deactivates what is missing and exits *)
(* by the number of errors.  The two scripts differ in the scraper, the    *)
(* source name and the --with-details pass.                                *)
(*                                                                         *)
(* run.site is what the list pages show while the script runs: one page    *)
(* (a list of external ids) for each search url.  run.stored is the table  *)
(* before the run.                                                         *)
(***************************************************************************)
\* The search urls of one script.
MaxUrls == 2

RunScripts == {"suumo", "chintai"}

\* const isDryRun = args.includes('--dry-run')
IsDryRunNever(args) == FALSE

IsDryRun(args) == "--dry-run" \in args

\* const withDetails = args.includes('--with-details')
WithDetails(args) == "--with-details" \in args

\* Only the CHINTAI script has the block that reads withDetails.
HasDetailsPass(script) == script = "chintai"

\* db = !isDryRun && supabaseUrl && supabaseKey ? new DatabaseService : null
\* env: SUPABASE_URL and SUPABASE_SERVICE_KEY are both set.
HasDb(isDryRun, env) == ~isDryRun /\ env

\* A field no pass has assigned, and a field holding a value.
Undefined == [undefined |-> TRUE]
Defined(v) == [undefined |-> FALSE, value |-> v]

SearchUrl(i) == "https://example.test/list?page=" \o ToString(i)

\* The record scrapeList returns for a listed room: the fields of
\* toPartialProperty; the list pass sets no other field.
ListRecord(script, id) ==
    [externalId |-> id, source |-> script, name |-> "L-name",
     address |-> "L-address", prefecture |-> "L-prefecture",
     city |-> "L-city", rent |-> 85000, managementFee |-> 5000,
     floorPlan |-> "1K", area |-> 25,
     sourceUrl |-> "https://example.test/detail/" \o id,
     deposit |-> Defined(85000), keyMoney |-> Defined(0),
     yearBuilt |-> Undefined, buildingType |-> Undefined,
     floors |-> Undefined, direction |-> Undefined,
     nearestStations |-> Undefined, features |-> Undefined,
     images |-> Undefined, petConditions |-> Undefined]

ListRecords(script, page) ==
    [j \in 1..Len(page) |-> ListRecord(script, page[j])]

\* The record scrapeDetail returns for a detail url: every field is read
\* from the detail page, the id from the url.  In the second one the page
\* shows less, and the fields it does not show are undefined.
DetailRecords(script, sourceUrl) ==
    {[externalId |-> "detail-id", source |-> script, name |-> "D-name",
      address |-> "D-address", prefecture |-> "D-prefecture",
      city |-> "D-city", rent |-> 90000, managementFee |-> 0,
      floorPlan |-> "1DK", area |-> 30, sourceUrl |-> sourceUrl,
      deposit |-> Defined(170000), keyMoney |-> Defined(85000),
      yearBuilt |-> Defined(2015), buildingType |-> Defined("mansion"),
      floors |-> Defined(5), direction |-> Defined("south"),
      nearestStations |-> Defined(<<"station">>),
      features |-> Defined(<<"pet">>), images |-> Defined(<<"image">>),
      petConditions |-> Defined("cat")],
     [externalId |-> "detail-id", source |-> script, name |-> "D-name",
      address |-> "D-address", prefecture |-> "D-prefecture",
      city |-> "D-city", rent |-> 90000, managementFee |-> 0,
      floorPlan |-> "1DK", area |-> 30, sourceUrl |-> sourceUrl,
      deposit |-> Defined(0), keyMoney |-> Defined(0),
      yearBuilt |-> Undefined, buildingType |-> Undefined,
      floors |-> Undefined, direction |-> Undefined,
      nearestStations |-> Defined(<<>>), features |-> Defined(<<>>),
      images |-> Defined(<<>>), petConditions |-> Undefined]}

\* What scraper.scrapeDetail(prop.sourceUrl) can return.
DetailResults(script, sourceUrl) ==
    {FailureResult(script, [kind |-> "Error", message |-> "request failed"])}
        \cup {SuccessResult(script, <<r>>) :
                r \in DetailRecords(script, sourceUrl)}

\* Object.assign(prop, detailProp)
MergeWholeRecord(prop, detailProp) == detailProp

\* Object.assign(prop, { deposit: detailProp.deposit, ... })
MergeDetail(prop, detailProp) ==
    [prop EXCEPT !.deposit = detailProp.deposit,
                 !.keyMoney = detailProp.keyMoney,
                 !.yearBuilt = detailProp.yearBuilt,
                 !.buildingType = detailProp.buildingType,
                 !.floors = detailProp.floors,
                 !.direction = detailProp.direction,
                 !.nearestStations = detailProp.nearestStations,
                 !.features = detailProp.features,
                 !.images = detailProp.images,
                 !.petConditions = detailProp.petConditions]

\* The body of the --with-details loop for one record and the result of
\* its scrapeDetail call (not made when the record has no sourceUrl).
WithDetail(prop, detailResult) ==
    IF prop.sourceUrl = "" THEN prop
    ELSE IF detailResult.success /\ Len(detailResult.properties) > 0
    THEN MergeDetail(prop, detailResult.properties[1])
    ELSE prop

\* for (const prop of result.properties) if (prop.externalId) push
RECURSIVE ExternalIdsOf(_)
ExternalIdsOf(props) ==
    IF props = <<>> THEN <<>>
    ELSE IF Head(props).externalId # ""
    THEN <<Head(props).externalId>> \o ExternalIdsOf(Tail(props))
    ELSE ExternalIdsOf(Tail(props))

\* if (errors.length > 0) process.exit(1); otherwise main returns.
ExitAlwaysDone(errors) == "done"

ExitAfterSummary(errors) == IF Len(errors) > 0 THEN "errors" ELSE "done"

\* The exit status of the process for each way main ends: "done" (main
\* returns), "errors" (exit(1) after the summary), "env" (exit(1) at the
\* environment check), "fatal" (exit(1) in main().catch).
ExitCode(exit) == IF exit = "done" THEN 0 ELSE 1

\* The pages a search url can show.
RunPages == {<<>>, <<"a1">>, <<"b2">>}

\* The stored rows of the script's source before the run: none, or an
\* active row for every id.
RunTables(script) ==
    {{},
     {[external_id |-> id, source |-> script, is_active |-> TRUE] :
        id \in DbIds}}

\* What the database client does for one record of a save.
RunFaults == {"none", "error"}

\* One of the two scripts is about to be started on a table that holds
\* rows of its source: nothing read yet, the locals of main as declared.
InitRun ==
    /\ ScrapeIdle /\ MoneyIdle
    /\ calls = <<>> /\ dbCall = NoDbCall /\ store = NoStore
    /\ \E script \in RunScripts :
        /\ dbRows \in RunTables(script)
        /\ run = [pc |-> "launch", script |-> script, args |-> {},
                  env |-> FALSE, site |-> <<>>, stored |-> dbRows, i |-> 1,
                  result |-> <<>>, details |-> <<>>,
                  allExternalIds |-> <<>>, totalInserted |-> 0,
                  totalUpdated |-> 0, errors |-> <<>>, scraped |-> <<>>,
                  dbOps |-> <<>>, exit |-> "none"]

\* The process starts: the module reads its arguments, main is called and
\* reads the environment.  site is what the search urls show from now on.
Launch ==
    /\ run.pc = "launch"
    /\ \E args \in SUBSET {"--dry-run", "--with-details"},
          env \in BOOLEAN,
          site \in ListsUpTo(RunPages, MaxUrls) :
        /\ Len(site) >= 1
        /\ run' = [run EXCEPT !.pc = "main", !.args = args, !.env = env,
                              !.site = site]
    /\ UNCHANGED <<scrapeVars, moneyVars, calls, dbRows, dbCall, store>>

\* The environment check: exit(1) when the run is not dry and a variable
\* is missing.
CheckEnvironment ==
    /\ run.pc = "main"
    /\ run' = IF ~IsDryRun(run.args) /\ ~run.env
              THEN [run EXCEPT !.pc = "ended", !.exit = "env"]
              ELSE [run EXCEPT !.pc = "loop"]
    /\ UNCHANGED <<scrapeVars, moneyVars, calls, dbRows, dbCall, store>>

\* scrapeList(url) returns a failure: the error is pushed, continue.
ScrapeListFails ==
    /\ run.pc = "loop" /\ run.i <= Len(run.site)
    /\ LET res == FailureResult(run.script,
                      [kind |-> "Error", message |-> "request failed"])
       IN  run' = [run EXCEPT
                     !.errors = Append(@, SearchUrl(run.i) \o ": " \o res.error),
                     !.scraped = Append(@, FALSE),
                     !.i = @ + 1]
    /\ UNCHANGED <<scrapeVars, moneyVars, calls, dbRows, dbCall, store>>

\* scrapeList(url) returns the records of the page.
ScrapeListSucceeds ==
    /\ run.pc = "loop" /\ run.i <= Len(run.site)
    /\ LET res == SuccessResult(run.script,
                                ListRecords(run.script, run.site[run.i]))
       IN  run' = [run EXCEPT
                     !.result = res.properties,
                     !.details = <<>>,
                     !.scraped = Append(@, TRUE),
                     !.pc = IF HasDetailsPass(run.script)
                               /\ WithDetails(run.args)
                            THEN "details" ELSE "save"]
    /\ UNCHANGED <<scrapeVars, moneyVars, calls, dbRows, dbCall, store>>

\* The --with-details loop over the records of the page.
FetchDetails ==
    /\ run.pc = "details"
    /\ \E detailResults \in
            [1..Len(run.result) ->
                UNION {DetailResults(run.script, run.result[j].sourceUrl) :
                         j \in 1..Len(run.result)}] :
        /\ \A j \in 1..Len(run.result) :
              detailResults[j] \in
                  DetailResults(run.script, run.result[j].sourceUrl)
        /\ run' = [run EXCEPT
                     !.result = [j \in 1..Len(run.result) |->
                                   WithDetail(run.result[j], detailResults[j])],
                     !.details = detailResults,
                     !.pc = "save"]
    /\ UNCHANGED <<scrapeVars, moneyVars, calls, dbRows, dbCall, store>>

\* The ids are collected; in a dry run the records are printed.  result and
\* the detail results are locals of the loop body and end with it.
PrintProperties ==
    /\ run.pc = "save" /\ IsDryRun(run.args)
    /\ run' = [run EXCEPT
                 !.allExternalIds = @ \o ExternalIdsOf(run.result),
                 !.result = <<>>, !.details = <<>>,
                       !.i = @ + 1, !.pc = "loop"]
    /\ UNCHANGED <<scrapeVars, moneyVars, calls, dbRows, dbCall, store>>

\* The ids are collected; else if (db): upsertProperties, the counts are
\* added and its errors pushed.
SaveProperties ==
    /\ run.pc = "save" /\ ~IsDryRun(run.args)
    /\ IF HasDb(IsDryRun(run.args), run.env)
       THEN \E faults \in [1..Len(run.result) -> RunFaults] :
              LET st == UpsertAll(UpsertStart(dbRows), run.result, faults)
              IN  /\ dbRows' = st.table
                  /\ run' = [run EXCEPT
                       !.allExternalIds = @ \o ExternalIdsOf(run.result),
                       !.totalInserted = @ + st.inserted,
                       !.totalUpdated = @ + st.updated,
                       !.errors = @ \o st.errors,
                       !.dbOps = Append(@, "upsertProperties"),
                       !.result = <<>>, !.details = <<>>,
                       !.i = @ + 1, !.pc = "loop"]
       ELSE /\ dbRows' = dbRows
            /\ run' = [run EXCEPT
                 !.allExternalIds = @ \o ExternalIdsOf(run.result),
                 !.result = <<>>, !.details = <<>>,
                       !.i = @ + 1, !.pc = "loop"]
    /\ UNCHANGED <<scrapeVars, moneyVars, calls, dbCall, store>>

\* if (!isDryRun && db && allExternalIds.length > 0)
Deactivates(r) ==
    /\ ~IsDryRun(r.args)
    /\ HasDb(IsDryRun(r.args), r.env)
    /\ Len(r.allExternalIds) > 0

\* After the loop: deactivateMissing(source, allExternalIds) returns.
DeactivateAfterLoop ==
    /\ run.pc = "loop" /\ run.i > Len(run.site)
    /\ Deactivates(run)
    /\ LET selected ==
             SelectedForDeactivation(dbRows, run.script, run.allExternalIds)
       IN  dbRows' = (dbRows \ selected)
                       \cup {[r EXCEPT !.is_active = FALSE] : r \in selected}
    /\ run' = [run EXCEPT !.dbOps = Append(@, "deactivateMissing"),
                          !.pc = "summary"]
    /\ UNCHANGED <<scrapeVars, moneyVars, calls, dbCall, store>>

\* After the loop: deactivateMissing throws ('Deactivate failed: ...'), the
\* exception leaves main and main().catch exits with 1.
DeactivateThrows ==
    /\ run.pc = "loop" /\ run.i > Len(run.site)
    /\ Deactivates(run)
    /\ run' = [run EXCEPT !.dbOps = Append(@, "deactivateMissing"),
                          !.pc = "ended", !.exit = "fatal"]
    /\ UNCHANGED <<scrapeVars, moneyVars, calls, dbRows, dbCall, store>>

\* After the loop: nothing to deactivate.
SkipDeactivate ==
    /\ run.pc = "loop" /\ run.i > Len(run.site)
    /\ ~Deactivates(run)
    /\ run' = [run EXCEPT !.pc = "summary"]
    /\ UNCHANGED <<scrapeVars, moneyVars, calls, dbRows, dbCall, store>>

\* The summary and the exit.
Summary ==
    /\ run.pc = "summary"
    /\ run' = [run EXCEPT !.pc = "ended", !.exit = ExitAfterSummary(run.errors)]
    /\ UNCHANGED <<scrapeVars, moneyVars, calls, dbRows, dbCall, store>>

NextRun ==
    \/ Launch
    \/ CheckEnvironment
    \/ ScrapeListFails
    \/ ScrapeListSucceeds
    \/ FetchDetails
    \/ PrintProperties
    \/ SaveProperties
    \/ DeactivateAfterLoop
    \/ DeactivateThrows
    \/ SkipDeactivate
    \/ Summary

SpecRun == InitRun /\ [][NextRun]_vars

\* main is one async function on the event loop: once the call it awaits
\* has settled, its next step runs.
SpecRunFair == SpecRun /\ WF_vars(NextRun)

\* The url of every failed scrapeList is in the error list.
C23_FailuresRecorded ==
    \A k \in 1..Len(run.scraped) :
        ~run.scraped[k] =>
            \E j \in 1..Len(run.errors) :
                run.errors[j] = SearchUrl(k) \o ": request failed"

\* Past the loop every search url has been scraped, failed ones included.
C23_EveryUrlScraped ==
    (run.pc = "summary" \/ (run.pc = "ended" /\ run.exit # "env"))
        => Len(run.scraped) = Len(run.site)

\* A recorded scrape failure or upsert error makes the exit status non-zero.
C23_ErrorsExitNonZero ==
    (run.pc = "ended" /\ run.errors # <<>>) => ExitCode(run.exit) # 0

\* The statement as written: in a run script a failed scrapeList is recorded
\* and the remaining urls are scraped; the run ends with a non-zero exit
\* status when an error was recorded, and with 'Done' when none was.
C23_DoneWheneverNothingRecorded ==
    /\ C23_FailuresRecorded
    /\ C23_EveryUrlScraped
    /\ C23_ErrorsExitNonZero
    /\ (run.pc = "ended" /\ run.errors = <<>>) => run.exit = "done"

\* C23: in a run script a failed scrapeList for one url is recorded in the
\* error list and the remaining urls are still scraped; the run ends, with
\* a non-zero exit status whenever a scrape failure or an upsert error was
\* recorded, and with 'Done' when none was recorded and the run reached its
\* summary.  A run that does not reach the summary ends with a non-zero
\* status and nothing recorded: at the environment check before any
\* scrape, or when deactivateMissing throws after the loop.
C23_RunOutcome ==
    /\ [](/\ C23_FailuresRecorded
          /\ C23_EveryUrlScraped
          /\ C23_ErrorsExitNonZero
          /\ (run.pc = "ended" /\ run.exit \in {"done", "errors"})
                => (run.exit = "done" <=> run.errors = <<>>)
          /\ (run.pc = "ended" /\ run.exit = "env")
                => (run.scraped = <<>> /\ ~IsDryRun(run.args) /\ ~run.env)
          /\ (run.pc = "ended" /\ run.exit = "fatal")
                => (/\ run.dbOps # <<>>
                    /\ run.dbOps[Len(run.dbOps)] = "deactivateMissing"))
    /\ <>(run.pc = "ended")

\* A run of two urls whose first scrape failed and whose second succeeded,
\* ended by exit(1) after the summary.
C23_Witness ==
    /\ run.pc = "ended" /\ run.exit = "errors"
    /\ Len(run.site) = 2
    /\ run.scraped = <<FALSE, TRUE>>
    /\ run.allExternalIds # <<>>

\* C24: in --dry-run mode a run script performs no persistence operation:
\* neither upsertProperties nor deactivateMissing is called and the table
\* stays as it was, whatever the scrape results and the environment.
C24_DryRunTouchesNoDatabase ==
    "--dry-run" \in run.args => (run.dbOps = <<>> /\ dbRows = run.stored)

\* A finished dry run with the environment variables set that scraped ids
\* and left a stored row missing from them.
C24_Witness ==
    /\ "--dry-run" \in run.args /\ run.env
    /\ run.pc = "ended"
    /\ run.allExternalIds # <<>>
    /\ \E r \in run.stored :
          \A j \in 1..Len(run.allExternalIds) :
              run.allExternalIds[j] # r.external_id

\* The fields of the list pass and the fields of the detail pass.
C25_ListFields(r) ==
    <<r.externalId, r.source, r.name, r.address, r.prefecture, r.city,
      r.rent, r.managementFee, r.floorPlan, r.area, r.sourceUrl>>

C25_DetailFields(r) ==
    <<r.deposit, r.keyMoney, r.yearBuilt, r.buildingType, r.floors,
      r.direction, r.nearestStations, r.features, r.images,
      r.petConditions>>

\* C25: after the --with-details pass of the CHINTAI script, a record whose
\* scrapeDetail failed or returned no record is the list record unchanged;
\* a record whose scrapeDetail succeeded has the ten detail fields of the
\* detail record and the eleven other fields of the list record.
C25_MergeOverwritesOnlyDetailFields ==
    (run.pc = "save" /\ run.details # <<>>) =>
        \A j \in 1..Len(run.result) :
            LET before == ListRecords(run.script, run.site[run.i])[j]
                after == run.result[j]
                detailResult == run.details[j]
            IN  IF detailResult.success /\ detailResult.properties # <<>>
                THEN /\ C25_ListFields(after) = C25_ListFields(before)
                     /\ C25_DetailFields(after) =
                            C25_DetailFields(detailResult.properties[1])
                ELSE after = before

\* A record merged with a detail record that differs from it in the fields
\* of both groups.
C25_Witness ==
    /\ run.pc = "save" /\ run.details # <<>>
    /\ run.details[1].success
    /\ run.details[1].properties[1].rent # run.result[1].rent
    /\ run.details[1].properties[1].externalId # run.result[1].externalId
    /\ run.result[1].direction = Defined("south")
    /\ ListRecords(run.script, run.site[run.i])[1].direction = Undefined

\* The ids that the site lists and that no successfully scraped page shows.
C26_OnlyOnFailedPages(id) ==
    /\ \E k \in 1..Len(run.scraped) :
          ~run.scraped[k] /\ \E j \in 1..Len(run.site[k]) : run.site[k][j] = id
    /\ \A k \in 1..Len(run.scraped) :
          run.scraped[k] => \A j \in 1..Len(run.site[k]) : run.site[k][j] # id

============================================================================
